---- MODULE Spec2Model ----
(***************************************************************************)
(* The A7IOP inter-processor fabric of QEMUAppleSilicon: the paired        *)
(* mailboxes (hw/misc/apple-silicon/a7iop/mailbox/core.c), the duplex      *)
(* channel (a7iop/core.c) and the RTBuddy session layer (a7iop/rtbuddy.c). *)
(*                                                                         *)
(* Every C function is a pure operator over a record `w` holding the       *)
(* device state; an action applies one entry point (a guest register       *)
(* access, a device reset, a run of the bottom half, a collaborator call)  *)
(* to the current state and stores the result.  All entry points run under *)
(* the big QEMU lock, so one entry point is one atomic step; SpecThreads,  *)
(* at the end, runs them as threads that interleave wherever the code      *)
(* holds none of its own mutexes.                                          *)
(***************************************************************************)
EXTENDS Integers, Sequences, FiniteSets, TLC

VARIABLES
    mbox,        \* the two AppleA7IOPMailbox objects, "iop" and "ap"
    bh,          \* the "iop" mailbox's bottom half: "none" (NULL), "idle", "scheduled"
    cpu_status,  \* AppleA7IOP.cpu_status
    cpu_ctrl,    \* AppleA7IOP.cpu_ctrl
    ep0_status,  \* AppleRTBuddy.ep0_status
    rollcall,    \* AppleRTBuddy.rollcall, the pending rollcall messages
    endpoints,   \* AppleRTBuddy.endpoints, the GTree keyed by endpoint id
    crashed,     \* the process dereferenced NULL or failed a g_assert
    last,        \* what the last entry point did and returned
    hs,          \* the rollcall in progress: entries generated, sent, acknowledged
    enq,         \* per inbox: the messages appended since its last reset
    deq,         \* per inbox: the messages dequeued since its last reset
    threads      \* per thread: the rest of its entry point, the mutexes it holds

vars == <<mbox, bh, cpu_status, cpu_ctrl, ep0_status, rollcall, endpoints,
          crashed, last, hs, enq, deq, threads>>

---------------------------------------------------------------------------
(* Bounds of the model.                                                    *)

\* messages one inbox may hold in the mailbox-level specifications
MaxQueue == 2
\* messages appended to the two inboxes since their last resets while the
\* order of the messages is observed
MaxHistory == 3
\* messages one inbox may hold in the saturation specification
MaxFill == 17
\* messages in flight (both inboxes together) in the session specifications
MaxInFlight == 2
\* the highest block of 32 endpoint ids a collaborator registers in
MaxBlock == 2
\* messages one inbox may hold in the interrupt specification
MaxLevel == 1
\* messages in flight (both inboxes together) during a handshake
MaxPending == 1

---------------------------------------------------------------------------
(* Program constants.                                                      *)

MAX_MESSAGE_COUNT == 15
CTRL_ENABLE_MASK == 1
CTRL_FULL_SHIFT == 16
CTRL_EMPTY_SHIFT == 17
CTRL_OVERFLOW_SHIFT == 18
CTRL_UNDERFLOW_SHIFT == 19
CTRL_COUNT_SHIFT == 20
IOP_EMPTY == 1
IOP_NONEMPTY == 16
AP_EMPTY == 256
AP_NONEMPTY == 4096
CPU_CTRL_RUN == 16
CPU_STATUS_IDLE == 1
EP_USER_START == 32
EP_MANAGEMENT == 0
EP_CRASHLOG == 1
MSG_SEND_HELLO == 1
MSG_RECV_HELLO == 2
MSG_TYPE_PING == 3
MSG_TYPE_PING_ACK == 4
MSG_TYPE_EPSTART == 5
MSG_TYPE_SET_IOP_PSTATE == 6
MSG_TYPE_SET_AP_PSTATE_ACK == 7
MSG_TYPE_ROLLCALL == 8
MSG_TYPE_SET_AP_PSTATE == 11
PSTATE_SLPNOMEM == 0
PSTATE_WAIT_VR == 513
PSTATE_PWRGATE == 514
PSTATE_ON == 544

RECURSIVE Pow2(_)
Pow2(n) == IF n = 0 THEN 1 ELSE 2 * Pow2(n - 1)

RECURSIVE BitAnd(_, _)
BitAnd(a, b) ==
    IF a = 0 \/ b = 0 THEN 0
    ELSE (a % 2) * (b % 2) + 2 * BitAnd(a \div 2, b \div 2)

RECURSIVE BitOr(_, _)
BitOr(a, b) ==
    IF a = 0 THEN b
    ELSE IF b = 0 THEN a
    ELSE (IF a % 2 = 1 \/ b % 2 = 1 THEN 1 ELSE 0)
         + 2 * BitOr(a \div 2, b \div 2)

\* a & ~b
BitAndNot(a, b) == a - BitAnd(a, b)

\* a MIN that does not saturate
MIN_First(a, b) == a

MIN(a, b) == IF a < b THEN a ELSE b

\* CTRL_COUNT(v): (v << 20) & (15 << 20)
CTRL_COUNT(v) == (v % (MAX_MESSAGE_COUNT + 1)) * Pow2(CTRL_COUNT_SHIFT)
CTRL_ENABLE(b) == IF b THEN CTRL_ENABLE_MASK ELSE 0
CTRL_FULL(b) == IF b THEN Pow2(CTRL_FULL_SHIFT) ELSE 0
CTRL_EMPTY(b) == IF b THEN Pow2(CTRL_EMPTY_SHIFT) ELSE 0
CTRL_UNDERFLOW(b) == IF b THEN Pow2(CTRL_UNDERFLOW_SHIFT) ELSE 0

---------------------------------------------------------------------------
(* Messages.  A 64-bit payload is kept as the fields of the packed         *)
(* AppleRTBuddyManagementMessage view (bits 0-31, 32-47, 48-51, 52-55) and *)
(* the top byte, which no field of the union names.                        *)

Raw(f0, f32, f48, type, hi) ==
    [field_0 |-> f0, field_32 |-> f32, field_48 |-> f48, type |-> type,
     raw_hi |-> hi]

\* AppleA7IOPMessage
Message(ep, raw, flags) == [endpoint |-> ep, msg |-> raw, flags |-> flags]

\* apple_rtbuddy_construct_msg: g_new0, then endpoint and msg
apple_rtbuddy_construct_msg(ep, data) == Message(ep, data, 0)

NULL == [null |-> TRUE]
VOID == [void |-> TRUE]

Mailboxes == {"iop", "ap"}

\* the iop_mailbox and ap_mailbox pointers of an object, as apple_a7iop_init
\* leaves them: both objects point at the same pair
iop_mailbox(s) == "iop"
ap_mailbox(s) == "ap"

\* a 16-byte register latch as its four 32-bit words, zeroed
ZeroReg == <<0, 0, 0, 0>>

NoIrqs == [iop_nonempty |-> FALSE, iop_empty |-> FALSE,
           ap_nonempty |-> FALSE, ap_empty |-> FALSE]

\* an AppleA7IOPMailbox as qdev_new (zeroed memory) and
\* apple_a7iop_mailbox_new leave it
NewMailbox ==
    [inbox |-> <<>>, count |-> 0, iop_dir_en |-> FALSE, ap_dir_en |-> FALSE,
     underflow |-> FALSE, int_mask |-> 0, irqs |-> NoIrqs,
     iop_recv_reg |-> ZeroReg, ap_recv_reg |-> ZeroReg,
     iop_send_reg |-> ZeroReg, ap_send_reg |-> ZeroReg, mmio |-> "v4"]

---------------------------------------------------------------------------
(* The device state as one record, with what the running entry point has   *)
(* returned, logged and called so far.                                     *)

World ==
    [mbox |-> mbox, bh |-> bh, cpu_status |-> cpu_status,
     cpu_ctrl |-> cpu_ctrl, ep0_status |-> ep0_status,
     rollcall |-> rollcall, endpoints |-> endpoints, crashed |-> crashed,
     ret |-> VOID,      \* the value the entry point returns
     log |-> <<>>,      \* qemu_log_mask(LOG_GUEST_ERROR, ...) diagnostics
     ev |-> <<>>,       \* inbox events: enq, deq, reset
     tx |-> <<>>,       \* messages handed to apple_a7iop_send_ap
     calls |-> <<>>,    \* endpoint handlers invoked by the bottom half
     hooks |-> <<>>,    \* start/wakeup hooks of the collaborator invoked
     trans |-> <<>>,    \* assignments to ep0_status: from, to, by
     upd |-> {},        \* mailbox objects whose interrupt lines were recomputed
     acc |-> {},        \* accesses to mailbox fields: object, field, lock held
     cpu |-> <<>>,      \* the values given to apple_a7iop_set_cpu_status
     hs |-> hs]

iop_empty_is_unmasked(int_mask) == BitAnd(int_mask, IOP_EMPTY) = 0
iop_nonempty_is_unmasked(int_mask) == BitAnd(int_mask, IOP_NONEMPTY) = 0
ap_empty_is_unmasked(int_mask) == BitAnd(int_mask, AP_EMPTY) = 0
ap_nonempty_is_unmasked(int_mask) == BitAnd(int_mask, AP_NONEMPTY) = 0

\* a nonempty line the mask silences even when the inbox has underflowed
NonemptyLevel_MaskFirst(unmasked, empty, underflow) ==
    unmasked /\ (~empty \/ underflow)

\* the level qemu_set_irq gives the two lines of one side
NonemptyLevel(unmasked, empty, underflow) == (unmasked /\ ~empty) \/ underflow
EmptyLevel(unmasked, empty) == unmasked /\ empty

\* the four levels apple_a7iop_mailbox_update_irq(s) sets
IrqLevels(w, s) ==
    LET iop_empty == w.mbox[iop_mailbox(s)].inbox = <<>>
        ap_empty == w.mbox[ap_mailbox(s)].inbox = <<>>
        iop_underflow == w.mbox[iop_mailbox(s)].underflow
        ap_underflow == w.mbox[ap_mailbox(s)].underflow
        int_mask == w.mbox[s].int_mask
    IN  [iop_nonempty |->
             NonemptyLevel(iop_nonempty_is_unmasked(int_mask), iop_empty,
                           iop_underflow),
         iop_empty |-> EmptyLevel(iop_empty_is_unmasked(int_mask), iop_empty),
         ap_nonempty |->
             NonemptyLevel(ap_nonempty_is_unmasked(int_mask), ap_empty,
                           ap_underflow),
         ap_empty |-> EmptyLevel(ap_empty_is_unmasked(int_mask), ap_empty)]

\* the fields of mailbox object obj read or written while the lock of
\* mailbox object lock, and no other mailbox lock, is held
Access(w, lock, obj, fields) ==
    [w EXCEPT !.acc = @ \cup {[obj |-> obj, field |-> f, lock |-> lock] :
                                 f \in fields}]

\* the queue of s read or written by a function that took s->lock
Queue(w, s) == Access(w, s, s, {"underflow", "inbox", "count"})

\* every caller holds s->lock, and that lock only
apple_a7iop_mailbox_update_irq(w, s) ==
    LET w1 == Access(w, s, iop_mailbox(s), {"inbox", "underflow"})
        w2 == Access(w1, s, ap_mailbox(s), {"inbox", "underflow"})
        w3 == Access(w2, s, s, {"int_mask"})
    IN  [w3 EXCEPT !.mbox[s].irqs = IrqLevels(w, s), !.upd = @ \cup {s}]

apple_a7iop_mailbox_is_empty(w, s) ==
    IF w.mbox[s].underflow THEN TRUE ELSE w.mbox[s].inbox = <<>>

\* a queue that inserts at the head
InsertTail_AtHead(inbox, msg) == <<msg>> \o inbox

\* QTAILQ_INSERT_TAIL(&s->inbox, msg, entry)
InsertTail(inbox, msg) == Append(inbox, msg)

\* qemu_bh_schedule(s->bh) when s->bh != NULL: only the "iop" object has one
\* an enqueue that never schedules the bottom half
ScheduleBh_Never(w, s) == w

\* qemu_bh_schedule: the bottom half becomes pending; on one that is
\* pending already the call changes nothing
qemu_bh_schedule(b) == "scheduled"

\* if (s->bh != NULL) qemu_bh_schedule(s->bh)
ScheduleBh(w, s) ==
    IF s = "iop" /\ w.bh # "none"
    THEN [w EXCEPT !.bh = qemu_bh_schedule(@)]
    ELSE w

apple_a7iop_mailbox_send(w, s, msg) ==
    LET w1 == [Access(w, s, s, {"inbox", "count"})
                  EXCEPT !.mbox[s].inbox = InsertTail(@, msg),
                         !.mbox[s].count = @ + 1,
                         !.ev = Append(@, [kind |-> "enq", box |-> s,
                                           msg |-> msg])]
    IN  ScheduleBh(apple_a7iop_mailbox_update_irq(w1, s), s)

\* the early return of a send or receive on a disabled direction
NotEnabled(w, fn, s, val) ==
    [Access(w, s, s, {"dir_en"})
        EXCEPT !.log = Append(@, <<fn, s, "direction not enabled">>),
               !.ret = val]

\* a send that forgets to look at the direction enable
apple_a7iop_mailbox_send_ap_Ungated(w, s, msg) ==
    apple_a7iop_mailbox_update_irq(
        apple_a7iop_mailbox_send(w, ap_mailbox(s), msg), s)

apple_a7iop_mailbox_send_ap(w, s, msg) ==
    IF ~w.mbox[s].ap_dir_en
    THEN NotEnabled(w, "apple_a7iop_mailbox_send_ap", s, VOID)
    ELSE apple_a7iop_mailbox_update_irq(
             apple_a7iop_mailbox_send(Access(w, s, s, {"dir_en"}),
                                      ap_mailbox(s), msg), s)

apple_a7iop_mailbox_send_iop(w, s, msg) ==
    IF ~w.mbox[s].iop_dir_en
    THEN NotEnabled(w, "apple_a7iop_mailbox_send_iop", s, VOID)
    ELSE apple_a7iop_mailbox_update_irq(
             apple_a7iop_mailbox_send(Access(w, s, s, {"dir_en"}),
                                      iop_mailbox(s), msg), s)

\* msg->flags |= CTRL_COUNT(s->count)
StampFlags(msg, count) == [msg EXCEPT !.flags = BitOr(@, CTRL_COUNT(count))]

\* QTAILQ_FIRST and QTAILQ_REMOVE of the head
First(inbox) == Head(inbox)
RemoveFirst(inbox) == Tail(inbox)

\* a receive that forgets the early return of an underflowed inbox
apple_a7iop_mailbox_recv_NotSticky(w, s) ==
    IF w.mbox[s].inbox = <<>>
    THEN apple_a7iop_mailbox_update_irq(
             [Queue(w, s) EXCEPT !.mbox[s].underflow = TRUE,
                       !.log = Append(@, <<"apple_a7iop_mailbox_recv", s,
                                          "underflowed">>),
                       !.ret = NULL], s)
    ELSE LET msg == StampFlags(First(w.mbox[s].inbox), w.mbox[s].count)
         IN  apple_a7iop_mailbox_update_irq(
                 [Queue(w, s) EXCEPT !.mbox[s].inbox = RemoveFirst(@),
                           !.mbox[s].count = @ - 1,
                           !.mbox[s].underflow = FALSE,
                           !.ev = Append(@, [kind |-> "deq", box |-> s,
                                             msg |-> msg]),
                           !.ret = msg], s)

apple_a7iop_mailbox_recv(w, s) ==
    IF w.mbox[s].underflow THEN [Queue(w, s) EXCEPT !.ret = NULL]
    ELSE IF w.mbox[s].inbox = <<>>
    THEN apple_a7iop_mailbox_update_irq(
             [Queue(w, s) EXCEPT !.mbox[s].underflow = TRUE,
                       !.log = Append(@, <<"apple_a7iop_mailbox_recv", s,
                                          "underflowed">>),
                       !.ret = NULL], s)
    ELSE LET msg == StampFlags(First(w.mbox[s].inbox), w.mbox[s].count)
         IN  apple_a7iop_mailbox_update_irq(
                 [Queue(w, s) EXCEPT !.mbox[s].inbox = RemoveFirst(@),
                           !.mbox[s].count = @ - 1,
                           !.ev = Append(@, [kind |-> "deq", box |-> s,
                                             msg |-> msg]),
                           !.ret = msg], s)

\* a receive toward the IOP that forgets to look at the direction enable
apple_a7iop_mailbox_recv_iop_Ungated(w, s) ==
    apple_a7iop_mailbox_update_irq(
        apple_a7iop_mailbox_recv(w, iop_mailbox(s)), s)

apple_a7iop_mailbox_recv_iop(w, s) ==
    IF ~w.mbox[s].iop_dir_en
    THEN NotEnabled(w, "apple_a7iop_mailbox_recv_iop", s, NULL)
    ELSE apple_a7iop_mailbox_update_irq(
             apple_a7iop_mailbox_recv(Access(w, s, s, {"dir_en"}),
                                      iop_mailbox(s)), s)

apple_a7iop_mailbox_recv_ap(w, s) ==
    IF ~w.mbox[s].ap_dir_en
    THEN NotEnabled(w, "apple_a7iop_mailbox_recv_ap", s, NULL)
    ELSE apple_a7iop_mailbox_update_irq(
             apple_a7iop_mailbox_recv(Access(w, s, s, {"dir_en"}),
                                      ap_mailbox(s)), s)

apple_a7iop_mailbox_get_int_mask(w, s) == w.mbox[s].int_mask

\* a mask write that replaces the mask
apple_a7iop_mailbox_set_int_mask_Assign(w, s, value) ==
    apple_a7iop_mailbox_update_irq(
        [Access(w, s, s, {"int_mask"}) EXCEPT !.mbox[s].int_mask = value], s)

apple_a7iop_mailbox_set_int_mask(w, s, value) ==
    apple_a7iop_mailbox_update_irq(
        [Access(w, s, s, {"int_mask"})
            EXCEPT !.mbox[s].int_mask = BitOr(@, value)], s)

apple_a7iop_mailbox_clear_int_mask(w, s, value) ==
    apple_a7iop_mailbox_update_irq(
        [Access(w, s, s, {"int_mask"})
            EXCEPT !.mbox[s].int_mask = BitAndNot(@, value)], s)

\* a status word that reports every field of an underflowed inbox
apple_a7iop_mailbox_ctrl_AllFields(w, s) ==
    BitOr(BitOr(BitOr(CTRL_FULL(w.mbox[s].count >= MAX_MESSAGE_COUNT),
                      CTRL_EMPTY(w.mbox[s].inbox = <<>>)),
                CTRL_UNDERFLOW(w.mbox[s].underflow)),
          CTRL_COUNT(MIN(w.mbox[s].count, MAX_MESSAGE_COUNT)))

\* a status word that reports overflow once more than MAX_MESSAGE_COUNT
\* messages are queued
apple_a7iop_mailbox_ctrl_Overflow(w, s) ==
    IF w.mbox[s].underflow THEN CTRL_UNDERFLOW(w.mbox[s].underflow)
    ELSE BitOr(BitOr(BitOr(CTRL_FULL(w.mbox[s].count >= MAX_MESSAGE_COUNT),
                           CTRL_EMPTY(w.mbox[s].inbox = <<>>)),
                     IF w.mbox[s].count > MAX_MESSAGE_COUNT
                     THEN Pow2(CTRL_OVERFLOW_SHIFT) ELSE 0),
               CTRL_COUNT(MIN(w.mbox[s].count, MAX_MESSAGE_COUNT)))

\* the status word of one inbox
apple_a7iop_mailbox_ctrl(w, s) ==
    IF w.mbox[s].underflow THEN CTRL_UNDERFLOW(w.mbox[s].underflow)
    ELSE BitOr(BitOr(CTRL_FULL(w.mbox[s].count >= MAX_MESSAGE_COUNT),
                     CTRL_EMPTY(w.mbox[s].inbox = <<>>)),
               CTRL_COUNT(MIN(w.mbox[s].count, MAX_MESSAGE_COUNT)))

apple_a7iop_mailbox_get_iop_ctrl(w, s) ==
    BitOr(CTRL_ENABLE(w.mbox[s].iop_dir_en),
          apple_a7iop_mailbox_ctrl(w, iop_mailbox(s)))

apple_a7iop_mailbox_get_ap_ctrl(w, s) ==
    BitOr(CTRL_ENABLE(w.mbox[s].ap_dir_en),
          apple_a7iop_mailbox_ctrl(w, ap_mailbox(s)))

apple_a7iop_mailbox_set_iop_ctrl(w, s, value) ==
    [Access(w, s, s, {"dir_en"})
        EXCEPT !.mbox[s].iop_dir_en = BitAnd(value, CTRL_ENABLE_MASK) # 0]

apple_a7iop_mailbox_set_ap_ctrl(w, s, value) ==
    [Access(w, s, s, {"dir_en"})
        EXCEPT !.mbox[s].ap_dir_en = BitAnd(value, CTRL_ENABLE_MASK) # 0]

\* a reset that empties the queue and forgets the count
apple_a7iop_mailbox_reset_KeepsCount(w, s) ==
    apple_a7iop_mailbox_update_irq(
        [Access(w, s, s, {"inbox", "count", "underflow", "dir_en",
                              "send_reg", "recv_reg"})
            EXCEPT !.mbox[s].iop_dir_en = TRUE,
                  !.mbox[s].ap_dir_en = TRUE,
                  !.mbox[s].underflow = FALSE,
                  !.mbox[s].inbox = <<>>,
                  !.mbox[s].iop_recv_reg = ZeroReg,
                  !.mbox[s].ap_recv_reg = ZeroReg,
                  !.mbox[s].iop_send_reg = ZeroReg,
                  !.mbox[s].ap_send_reg = ZeroReg,
                  !.ev = Append(@, [kind |-> "reset", box |-> s, msg |-> NULL])],
        s)

\* a reset that leaves an underflowed inbox underflowed
apple_a7iop_mailbox_reset_KeepsUnderflow(w, s) ==
    apple_a7iop_mailbox_update_irq(
        [Access(w, s, s, {"inbox", "count", "underflow", "dir_en",
                              "send_reg", "recv_reg"})
            EXCEPT !.mbox[s].count = 0,
                  !.mbox[s].iop_dir_en = TRUE,
                  !.mbox[s].ap_dir_en = TRUE,
                  !.mbox[s].inbox = <<>>,
                  !.mbox[s].iop_recv_reg = ZeroReg,
                  !.mbox[s].ap_recv_reg = ZeroReg,
                  !.mbox[s].iop_send_reg = ZeroReg,
                  !.mbox[s].ap_send_reg = ZeroReg,
                  !.ev = Append(@, [kind |-> "reset", box |-> s, msg |-> NULL])],
        s)

\* a reset that also unmasks every interrupt condition
apple_a7iop_mailbox_reset_ClearsMask(w, s) ==
    apple_a7iop_mailbox_update_irq(
        [Access(w, s, s, {"inbox", "count", "underflow", "dir_en",
                          "send_reg", "recv_reg"})
            EXCEPT !.mbox[s].count = 0,
                  !.mbox[s].iop_dir_en = TRUE,
                  !.mbox[s].ap_dir_en = TRUE,
                  !.mbox[s].underflow = FALSE,
                  !.mbox[s].int_mask = 0,
                  !.mbox[s].inbox = <<>>,
                  !.mbox[s].iop_recv_reg = ZeroReg,
                  !.mbox[s].ap_recv_reg = ZeroReg,
                  !.mbox[s].iop_send_reg = ZeroReg,
                  !.mbox[s].ap_send_reg = ZeroReg,
                  !.ev = Append(@, [kind |-> "reset", box |-> s, msg |-> NULL])],
        s)

apple_a7iop_mailbox_reset(w, s) ==
    apple_a7iop_mailbox_update_irq(
        [Access(w, s, s, {"inbox", "count", "underflow", "dir_en",
                              "send_reg", "recv_reg"})
            EXCEPT !.mbox[s].count = 0,
                  !.mbox[s].iop_dir_en = TRUE,
                  !.mbox[s].ap_dir_en = TRUE,
                  !.mbox[s].underflow = FALSE,
                  !.mbox[s].inbox = <<>>,
                  !.mbox[s].iop_recv_reg = ZeroReg,
                  !.mbox[s].ap_recv_reg = ZeroReg,
                  !.mbox[s].iop_send_reg = ZeroReg,
                  !.mbox[s].ap_send_reg = ZeroReg,
                  !.ev = Append(@, [kind |-> "reset", box |-> s, msg |-> NULL])],
        s)

---------------------------------------------------------------------------
(* The register blocks (mailbox/regs-v2.c, mailbox/regs-v4.c).  An access  *)
(* names the send or receive register of a side, the index i of the 32-bit *)
(* word it starts at and its size in bytes; data is the pair of 32-bit     *)
(* words of the 64-bit value, low word first.                              *)

\* the words of msg->data: msg (bits 0-31, 32-63), endpoint, flags
WordsOf(msg) ==
    <<msg.msg.field_0,
      msg.msg.field_32
          + Pow2(16) * (msg.msg.field_48
                            + 16 * (msg.msg.type + 16 * msg.msg.raw_hi)),
      msg.endpoint, msg.flags>>

\* the message g_new0 and memcpy(msg->data, reg, sizeof(msg->data)) make
MessageOf(reg) ==
    Message(reg[3],
            Raw(reg[1], reg[2] % Pow2(16), (reg[2] \div Pow2(16)) % 16,
                (reg[2] \div Pow2(20)) % 16, reg[2] \div Pow2(24)),
            reg[4])

SendReg(side) == IF side = "iop" THEN "iop_send_reg" ELSE "ap_send_reg"
RecvReg(side) == IF side = "iop" THEN "iop_recv_reg" ELSE "ap_recv_reg"

\* memcpy(reg + 4 * i, &data, size)
Latch(reg, i, size, data) ==
    [k \in 1..4 |-> IF k = i + 1 THEN data[1]
                    ELSE IF size = 8 /\ k = i + 2 THEN data[2]
                    ELSE reg[k]]

\* memcpy(&ret, reg + 4 * i, size) into ret = 0
Latched(reg, i, size) == <<reg[i + 1], IF size = 8 THEN reg[i + 2] ELSE 0>>

\* the accesses the memory core passes on to a register of nwords words:
\* 4 or 8 bytes, aligned to their size
Accesses(nwords) ==
    {a \in (0..(nwords - 1)) \X {4, 8} : a[2] = 8 => a[1] % 2 = 0}

\* a version 4 write that pushes whenever it writes the first word
apple_a7iop_mailbox_reg_write_v4_OnFirstWord(w, s, side, i, size, data) ==
    LET w1 == [Access(w, s, s, {"send_reg"})
                  EXCEPT !.mbox[s][SendReg(side)] = Latch(@, i, size, data),
                         !.ret = VOID]
        msg == MessageOf(w1.mbox[s][SendReg(side)])
    IN  IF i = 0
        THEN IF side = "iop" THEN apple_a7iop_mailbox_send_iop(w1, s, msg)
             ELSE apple_a7iop_mailbox_send_ap(w1, s, msg)
        ELSE w1

\* case REG_IOP_SEND0 ... REG_IOP_SEND3 and REG_AP_SEND0 ... REG_AP_SEND3:
\* addr + size = REG_x_SEND3 + 4 is 4 * i + size = 16
apple_a7iop_mailbox_reg_write_v4(w, s, side, i, size, data) ==
    LET w1 == [Access(w, s, s, {"send_reg"})
                  EXCEPT !.mbox[s][SendReg(side)] = Latch(@, i, size, data),
                         !.ret = VOID]
        msg == MessageOf(w1.mbox[s][SendReg(side)])
    IN  IF 4 * i + size = 16
        THEN IF side = "iop" THEN apple_a7iop_mailbox_send_iop(w1, s, msg)
             ELSE apple_a7iop_mailbox_send_ap(w1, s, msg)
        ELSE w1

\* case REG_IOP_RECV0 ... REG_IOP_RECV3 and REG_AP_RECV0 ... REG_AP_RECV3
apple_a7iop_mailbox_reg_read_v4(w, s, side, i, size) ==
    LET r == IF side = "iop" THEN apple_a7iop_mailbox_recv_iop(w, s)
             ELSE apple_a7iop_mailbox_recv_ap(w, s)
        w1 == IF i = 0
              THEN [Access(r, s, s, {"recv_reg"})
                       EXCEPT !.mbox[s][RecvReg(side)] =
                                  IF r.ret # NULL THEN WordsOf(r.ret)
                                  ELSE ZeroReg]
              ELSE w
    IN  [Access(w1, s, s, {"recv_reg"})
            EXCEPT !.ret = [data |-> Latched(w1.mbox[s][RecvReg(side)],
                                             i, size)]]

\* case REG_IOP_SEND0, REG_IOP_SEND1 and REG_AP_SEND0, REG_AP_SEND1:
\* addr + size = REG_x_SEND1 + 4 is 4 * i + size = 8
apple_a7iop_mailbox_reg_write_v2(w, s, side, i, size, data) ==
    LET w1 == [Access(w, s, s, {"send_reg"})
                  EXCEPT !.mbox[s][SendReg(side)] = Latch(@, i, size, data),
                         !.ret = VOID]
        msg == MessageOf(w1.mbox[s][SendReg(side)])
    IN  IF 4 * i + size = 8
        THEN IF side = "iop" THEN apple_a7iop_mailbox_send_iop(w1, s, msg)
             ELSE apple_a7iop_mailbox_send_ap(w1, s, msg)
        ELSE w1

\* case REG_IOP_RECV0, REG_IOP_RECV1 and REG_AP_RECV0, REG_AP_RECV1
apple_a7iop_mailbox_reg_read_v2(w, s, side, i, size) ==
    LET r == IF side = "iop" THEN apple_a7iop_mailbox_recv_iop(w, s)
             ELSE apple_a7iop_mailbox_recv_ap(w, s)
        w1 == IF i = 0
              THEN [Access(r, s, s, {"recv_reg"})
                       EXCEPT !.mbox[s][RecvReg(side)] =
                                  IF r.ret # NULL THEN WordsOf(r.ret)
                                  ELSE ZeroReg]
              ELSE w
    IN  [Access(w1, s, s, {"recv_reg"})
            EXCEPT !.ret = [data |-> Latched(w1.mbox[s][RecvReg(side)],
                                             i, size)]]

\* the words of the send and receive registers of the block of object s
RegWords(w, s) == IF w.mbox[s].mmio = "v2" THEN 2 ELSE 4

\* s->mmio: the MemoryRegionOps the object was given
MmioWrite(w, s, side, i, size, data) ==
    IF w.mbox[s].mmio = "v2"
    THEN apple_a7iop_mailbox_reg_write_v2(w, s, side, i, size, data)
    ELSE apple_a7iop_mailbox_reg_write_v4(w, s, side, i, size, data)

MmioRead(w, s, side, i, size) ==
    IF w.mbox[s].mmio = "v2"
    THEN apple_a7iop_mailbox_reg_read_v2(w, s, side, i, size)
    ELSE apple_a7iop_mailbox_reg_read_v4(w, s, side, i, size)

---------------------------------------------------------------------------
(* The duplex channel (a7iop/core.c): messages toward the AP go through    *)
(* the "iop" object into the "ap" inbox, messages toward the IOP through   *)
(* the "ap" object into the "iop" inbox.                                   *)

apple_a7iop_send_ap(w, msg) ==
    apple_a7iop_mailbox_send_ap([w EXCEPT !.tx = Append(@, msg)], "iop", msg)

apple_a7iop_recv_ap(w) == apple_a7iop_mailbox_recv_ap(w, "iop")

apple_a7iop_send_iop(w, msg) == apple_a7iop_mailbox_send_iop(w, "ap", msg)

apple_a7iop_recv_iop(w) == apple_a7iop_mailbox_recv_iop(w, "ap")

apple_a7iop_get_cpu_status(w) == w.cpu_status

apple_a7iop_set_cpu_status(w, value) ==
    [w EXCEPT !.cpu_status = value, !.cpu = Append(@, value)]

---------------------------------------------------------------------------
(* The RTBuddy session layer (a7iop/rtbuddy.c).                            *)

\* the handler of the management endpoint, and any handler of a collaborator
MgmtHandler == [fn |-> "apple_rtbuddy_handle_mgmt_msg"]
Handler == [fn |-> "handler"]
\* a handler that answers on the endpoint it was called for, as
\* apple_smc_handle_key_endpoint answers SMC_GET_SRAM_ADDR
ReplyHandler == [fn |-> "apple_smc_handle_key_endpoint"]
sram_addr == Raw(6, 0, 0, 0, 0)

\* the opaque pointers: the session itself and a collaborator's object
Self == [obj |-> "rtbuddy"]
Collaborator == [obj |-> "collaborator"]

\* s->protocol_version, as the collaborator passes it to apple_rtbuddy_init
protocol_version == 11

\* the AppleRTBuddyOps of the collaborator
Ops == [start |-> TRUE, wakeup |-> TRUE]

\* MSG_GET_PSTATE(_x): (_x) & 0xFFF
MSG_GET_PSTATE(raw) == raw.field_0 % 4096

\* a management message with type MSG_TYPE_ROLLCALL: epMask is bits 0-31,
\* epBlock the low six bits of bits 32-47, epEnded bit 51
RollcallMsg(mask, block, ended) ==
    Raw(mask, block % 64, IF ended THEN 8 ELSE 0, MSG_TYPE_ROLLCALL, 0)

\* an assignment to s->ep0_status
SetPhase(w, to, by) ==
    [w EXCEPT !.ep0_status = to,
              !.trans = Append(@, [from |-> w.ep0_status, to |-> to,
                                   by |-> by])]

apple_rtbuddy_send_msg(w, ep, data) ==
    apple_a7iop_send_ap(w, apple_rtbuddy_construct_msg(ep, data))

apple_rtbuddy_send_control_msg(w, ep, data) ==
    IF ep < EP_USER_START THEN apple_rtbuddy_send_msg(w, ep, data)
    ELSE [w EXCEPT !.crashed = TRUE]

\* a send that takes the logical id for the endpoint id
apple_rtbuddy_send_user_msg_NoOffset(w, ep, data) ==
    IF ep < 224 THEN apple_rtbuddy_send_msg(w, ep, data)
    ELSE [w EXCEPT !.crashed = TRUE]

apple_rtbuddy_send_user_msg(w, ep, data) ==
    IF ep < 224 THEN apple_rtbuddy_send_msg(w, ep + EP_USER_START, data)
    ELSE [w EXCEPT !.crashed = TRUE]

g_tree_lookup(tree, key) == IF key \in DOMAIN tree THEN tree[key] ELSE NULL

g_tree_insert(tree, key, data) ==
    [k \in DOMAIN tree \cup {key} |-> IF k = key THEN data ELSE tree[k]]

g_tree_remove(tree, key) == [k \in DOMAIN tree \ {key} |-> tree[k]]

apple_rtbuddy_register_ep(w, ep, opaque, handler, user) ==
    IF opaque = NULL THEN [w EXCEPT !.crashed = TRUE]
    ELSE [w EXCEPT !.endpoints =
              g_tree_insert(@, ep, [opaque |-> opaque, handler |-> handler,
                                    user |-> user])]

apple_rtbuddy_register_control_ep(w, ep, opaque, handler) ==
    IF ep < EP_USER_START
    THEN apple_rtbuddy_register_ep(w, ep, opaque, handler, FALSE)
    ELSE [w EXCEPT !.crashed = TRUE]

apple_rtbuddy_register_user_ep(w, ep, opaque, handler) ==
    IF ep < 224
    THEN apple_rtbuddy_register_ep(w, ep + EP_USER_START, opaque, handler, TRUE)
    ELSE [w EXCEPT !.crashed = TRUE]

apple_rtbuddy_unregister_ep(w, ep) ==
    IF g_tree_lookup(w.endpoints, ep) # NULL
    THEN [w EXCEPT !.endpoints = g_tree_remove(@, ep)]
    ELSE w

apple_rtbuddy_unregister_control_ep(w, ep) ==
    IF ep < EP_USER_START THEN apple_rtbuddy_unregister_ep(w, ep)
    ELSE [w EXCEPT !.crashed = TRUE]

apple_rtbuddy_unregister_user_ep(w, ep) ==
    IF ep < 224 THEN apple_rtbuddy_unregister_ep(w, ep + EP_USER_START)
    ELSE [w EXCEPT !.crashed = TRUE]

\* a traversal callback that closes a block without looking at its mask
iop_rollcall_NoMaskTest(d, key) ==
    IF key < 1 THEN d
    ELSE LET ep == key
             d1 == IF ep \div EP_USER_START # d.last_block
                   THEN [d EXCEPT
                            !.w.rollcall =
                                InsertTail(@, apple_rtbuddy_construct_msg(
                                    EP_MANAGEMENT,
                                    RollcallMsg(d.mask, d.last_block, FALSE))),
                            !.mask = 0]
                   ELSE d
         IN  [d1 EXCEPT !.last_block = ep \div EP_USER_START,
                        !.mask = BitOr(@, Pow2(ep % EP_USER_START))]

\* the callback of the traversal; d is the AppleRTBuddyRollcallData
iop_rollcall(d, key) ==
    IF key < 1 THEN d
    ELSE LET ep == key
             d1 == IF ep \div EP_USER_START # d.last_block /\ d.mask # 0
                   THEN [d EXCEPT
                            !.w.rollcall =
                                InsertTail(@, apple_rtbuddy_construct_msg(
                                    EP_MANAGEMENT,
                                    RollcallMsg(d.mask, d.last_block, FALSE))),
                            !.mask = 0]
                   ELSE d
         IN  [d1 EXCEPT !.last_block = ep \div EP_USER_START,
                        !.mask = BitOr(@, Pow2(ep % EP_USER_START))]

\* the least key of a non-empty set of keys (g_uint_cmp orders the tree)
LeastKey(keys) == CHOOSE k \in keys : \A j \in keys : k <= j

\* g_tree_foreach(s->endpoints, iop_rollcall, &data): in ascending key order
RECURSIVE g_tree_foreach(_, _)
g_tree_foreach(keys, d) ==
    IF keys = {} THEN d
    ELSE g_tree_foreach(keys \ {LeastKey(keys)},
                        iop_rollcall(d, LeastKey(keys)))

\* a rollcall construction that appends to the entries left pending
iop_start_rollcall_KeepsStale(w) ==
    LET w1 == SetPhase(w, "EP0_WAIT_ROLLCALL", "iop_start_rollcall")
        d == g_tree_foreach(DOMAIN w1.endpoints,
                            [w |-> w1, mask |-> 0, last_block |-> 0])
        w2 == [d.w EXCEPT
                  !.rollcall =
                      InsertTail(@, apple_rtbuddy_construct_msg(
                          EP_MANAGEMENT,
                          RollcallMsg(d.mask, d.last_block, TRUE)))]
        msg == First(w2.rollcall)
        w3 == [w2 EXCEPT !.rollcall = RemoveFirst(@),
                         !.hs = [gen |-> w2.rollcall, sent |-> <<msg>>,
                                 acks |-> 0]]
    IN  apple_a7iop_send_ap(w3, msg)

iop_start_rollcall(w) ==
    LET w1 == SetPhase([w EXCEPT !.rollcall = <<>>], "EP0_WAIT_ROLLCALL",
                       "iop_start_rollcall")
        d == g_tree_foreach(DOMAIN w1.endpoints,
                            [w |-> w1, mask |-> 0, last_block |-> 0])
        w2 == [d.w EXCEPT
                  !.rollcall =
                      InsertTail(@, apple_rtbuddy_construct_msg(
                          EP_MANAGEMENT,
                          RollcallMsg(d.mask, d.last_block, TRUE)))]
        msg == First(w2.rollcall)
        w3 == [w2 EXCEPT !.rollcall = RemoveFirst(@),
                         !.hs = [gen |-> w2.rollcall, sent |-> <<msg>>,
                                 acks |-> 0]]
    IN  apple_a7iop_send_ap(w3, msg)

\* an acknowledgement that ends the rollcall with its last entry
RollcallAck_EarlyDone(w, ep) ==
    LET w0 == [w EXCEPT !.hs.acks = @ + 1]
    IN  IF Len(w0.rollcall) <= 1
        THEN LET m == Raw(32, 0, 0, MSG_TYPE_SET_AP_PSTATE_ACK, 0)
                 w1 == SetPhase(w0, "EP0_IDLE", "apple_rtbuddy_handle_mgmt_msg")
             IN  apple_rtbuddy_send_msg(
                     [w1 EXCEPT !.hs.sent =
                          Append(@, apple_rtbuddy_construct_msg(ep, m))],
                     ep, m)
        ELSE LET m == First(w0.rollcall)
             IN  apple_a7iop_send_ap(
                     [w0 EXCEPT !.rollcall = RemoveFirst(@),
                                !.hs.sent = Append(@, m)], m)

\* an acknowledgement that ends the rollcall by asking for a new hello
RollcallAck_Restart(w, ep) ==
    LET w0 == [w EXCEPT !.hs.acks = @ + 1]
    IN  IF w0.rollcall = <<>>
        THEN LET m == Raw(32, 0, 0, MSG_TYPE_SET_AP_PSTATE_ACK, 0)
                 w1 == SetPhase(w0, "EP0_WAIT_HELLO",
                                "apple_rtbuddy_handle_mgmt_msg")
             IN  apple_rtbuddy_send_msg(
                     [w1 EXCEPT !.hs.sent =
                          Append(@, apple_rtbuddy_construct_msg(ep, m))],
                     ep, m)
        ELSE LET m == First(w0.rollcall)
             IN  apple_a7iop_send_ap(
                     [w0 EXCEPT !.rollcall = RemoveFirst(@),
                                !.hs.sent = Append(@, m)], m)

\* a handshake that ends in the phase EP0_DONE
RollcallAck_Done(w, ep) ==
    LET w0 == [w EXCEPT !.hs.acks = @ + 1]
    IN  IF w0.rollcall = <<>>
        THEN LET m == Raw(32, 0, 0, MSG_TYPE_SET_AP_PSTATE_ACK, 0)
                 w1 == SetPhase(w0, "EP0_DONE", "apple_rtbuddy_handle_mgmt_msg")
             IN  apple_rtbuddy_send_msg(
                     [w1 EXCEPT !.hs.sent =
                          Append(@, apple_rtbuddy_construct_msg(ep, m))],
                     ep, m)
        ELSE LET m == First(w0.rollcall)
             IN  apple_a7iop_send_ap(
                     [w0 EXCEPT !.rollcall = RemoveFirst(@),
                                !.hs.sent = Append(@, m)], m)

\* case EP0_WAIT_ROLLCALL, case MSG_TYPE_ROLLCALL
RollcallAck(w, ep) ==
    LET w0 == [w EXCEPT !.hs.acks = @ + 1]
    IN  IF w0.rollcall = <<>>
        THEN LET m == Raw(32, 0, 0, MSG_TYPE_SET_AP_PSTATE_ACK, 0)
                 w1 == SetPhase(w0, "EP0_IDLE", "apple_rtbuddy_handle_mgmt_msg")
             IN  apple_rtbuddy_send_msg(
                     [w1 EXCEPT !.hs.sent =
                          Append(@, apple_rtbuddy_construct_msg(ep, m))],
                     ep, m)
        ELSE LET m == First(w0.rollcall)
             IN  apple_a7iop_send_ap(
                     [w0 EXCEPT !.rollcall = RemoveFirst(@),
                                !.hs.sent = Append(@, m)], m)

apple_rtbuddy_mgmt_send_hello(w) ==
    LET major == protocol_version % 65536
        minor == protocol_version % 65536
        msg == Raw(major + 65536 * minor, 0, 0, MSG_SEND_HELLO, 0)
    IN  apple_rtbuddy_send_control_msg(
            SetPhase(w, "EP0_WAIT_HELLO", "apple_rtbuddy_mgmt_send_hello"),
            EP_MANAGEMENT, msg)

apple_rtbuddy_iop_start(w) ==
    LET w1 == apple_a7iop_set_cpu_status(
                  w, BitAndNot(apple_a7iop_get_cpu_status(w), CPU_STATUS_IDLE))
        w2 == IF Ops # NULL /\ Ops.start
              THEN [w1 EXCEPT !.hooks = Append(@, "start")]
              ELSE w1
    IN  apple_rtbuddy_mgmt_send_hello(w2)

\* a wakeup that clears the whole processor status
apple_rtbuddy_iop_wakeup_ClearsStatus(w) ==
    LET w1 == apple_a7iop_set_cpu_status(w, 0)
        w2 == IF Ops # NULL /\ Ops.wakeup
              THEN [w1 EXCEPT !.hooks = Append(@, "wakeup")]
              ELSE w1
    IN  apple_rtbuddy_mgmt_send_hello(w2)

apple_rtbuddy_iop_wakeup(w) ==
    LET w1 == apple_a7iop_set_cpu_status(
                  w, BitAndNot(apple_a7iop_get_cpu_status(w), CPU_STATUS_IDLE))
        w2 == IF Ops # NULL /\ Ops.wakeup
              THEN [w1 EXCEPT !.hooks = Append(@, "wakeup")]
              ELSE w1
    IN  apple_rtbuddy_mgmt_send_hello(w2)

\* s->ops is apple_rtbuddy_iop_ops when a session owns the channel (it then
\* has a bottom half) and NULL otherwise
apple_a7iop_cpu_start(w, wake) ==
    IF w.bh = "none" THEN w
    ELSE IF wake THEN apple_rtbuddy_iop_wakeup(w)
    ELSE apple_rtbuddy_iop_start(w)

\* a control write that starts the processor only on a rising run bit
apple_a7iop_set_cpu_ctrl_OnEdge(w, value) ==
    LET w1 == [w EXCEPT !.cpu_ctrl = value]
    IN  IF BitAnd(value, CPU_CTRL_RUN) # 0 /\ BitAnd(w.cpu_ctrl, CPU_CTRL_RUN) = 0
        THEN apple_a7iop_cpu_start(w1, FALSE)
        ELSE w1

apple_a7iop_set_cpu_ctrl(w, value) ==
    LET w1 == [w EXCEPT !.cpu_ctrl = value]
    IN  IF BitAnd(value, CPU_CTRL_RUN) # 0
        THEN apple_a7iop_cpu_start(w1, FALSE)
        ELSE w1

\* a keepalive reply that loses the timestamp
MgmtPing_NoTimestamp(w, ep, msg) ==
    apple_rtbuddy_send_msg(w, ep, Raw(msg.field_0, 0, 0, MSG_TYPE_PING_ACK, 0))

\* case MSG_TYPE_PING
MgmtPing(w, ep, msg) ==
    apple_rtbuddy_send_msg(
        w, ep, Raw(msg.field_0, msg.field_32, 0, MSG_TYPE_PING_ACK, 0))

\* a passthrough that sends the received 64-bit word back as it is
MgmtSetApPstate_WholeWord(w, ep, msg) == apple_rtbuddy_send_msg(w, ep, msg)

\* case MSG_TYPE_SET_AP_PSTATE
MgmtSetApPstate(w, ep, msg) ==
    apple_rtbuddy_send_msg(
        w, ep, Raw(msg.field_0, 0, 0, MSG_TYPE_SET_AP_PSTATE, 0))

\* a sleep request that is acknowledged without parking the processor
MgmtSetIopPstate_NoIdle(w, ep, msg) ==
    IF MSG_GET_PSTATE(msg) \in {PSTATE_WAIT_VR, PSTATE_ON}
    THEN apple_a7iop_cpu_start(w, TRUE)
    ELSE IF MSG_GET_PSTATE(msg) = PSTATE_SLPNOMEM
    THEN apple_rtbuddy_send_msg(
             w, ep,
             Raw(MSG_GET_PSTATE(msg), 0, 0, MSG_TYPE_SET_AP_PSTATE_ACK, 0))
    ELSE w

\* case EP0_IDLE, case MSG_TYPE_SET_IOP_PSTATE
MgmtSetIopPstate(w, ep, msg) ==
    IF MSG_GET_PSTATE(msg) \in {PSTATE_WAIT_VR, PSTATE_ON}
    THEN apple_a7iop_cpu_start(w, TRUE)
    ELSE IF MSG_GET_PSTATE(msg) = PSTATE_SLPNOMEM
    THEN apple_rtbuddy_send_msg(
             apple_a7iop_set_cpu_status(w, CPU_STATUS_IDLE), ep,
             Raw(MSG_GET_PSTATE(msg), 0, 0, MSG_TYPE_SET_AP_PSTATE_ACK, 0))
    ELSE w

\* a handler that takes an EpStart for a rollcall acknowledgement
apple_rtbuddy_handle_mgmt_msg_EpStartAcks(w, ep, msg) ==
    IF msg.type = MSG_TYPE_PING THEN MgmtPing(w, ep, msg)
    ELSE IF msg.type = MSG_TYPE_SET_AP_PSTATE THEN MgmtSetApPstate(w, ep, msg)
    ELSE IF w.ep0_status = "EP0_IDLE"
    THEN IF msg.type = MSG_TYPE_SET_IOP_PSTATE
         THEN MgmtSetIopPstate(w, ep, msg)
         ELSE w
    ELSE IF w.ep0_status = "EP0_WAIT_HELLO"
    THEN IF msg.type = MSG_RECV_HELLO THEN iop_start_rollcall(w) ELSE w
    ELSE IF w.ep0_status = "EP0_WAIT_ROLLCALL"
    THEN IF msg.type \in {MSG_TYPE_ROLLCALL, MSG_TYPE_EPSTART}
         THEN RollcallAck(w, ep)
         ELSE w
    ELSE w

apple_rtbuddy_handle_mgmt_msg(w, ep, msg) ==
    IF msg.type = MSG_TYPE_PING THEN MgmtPing(w, ep, msg)
    ELSE IF msg.type = MSG_TYPE_SET_AP_PSTATE THEN MgmtSetApPstate(w, ep, msg)
    ELSE IF w.ep0_status = "EP0_IDLE"
    THEN IF msg.type = MSG_TYPE_SET_IOP_PSTATE
         THEN MgmtSetIopPstate(w, ep, msg)
         ELSE w
    ELSE IF w.ep0_status = "EP0_WAIT_HELLO"
    THEN IF msg.type = MSG_RECV_HELLO THEN iop_start_rollcall(w) ELSE w
    ELSE IF w.ep0_status = "EP0_WAIT_ROLLCALL"
    THEN IF msg.type = MSG_TYPE_ROLLCALL THEN RollcallAck(w, ep) ELSE w
    ELSE w

\* the endpoint id a handler is given, as if every endpoint were a control one
LogicalEp_Physical(data, msg) == msg.endpoint

\* data->user ? msg->endpoint - EP_USER_START : msg->endpoint
LogicalEp(data, msg) ==
    IF data.user THEN msg.endpoint - EP_USER_START ELSE msg.endpoint

\* data->handler(data->opaque, ep, msg): the management handler runs, a
\* handler of a collaborator is recorded
CallHandler(w, data, ep, message) ==
    LET w1 == [w EXCEPT !.calls =
                   Append(@, [handler |-> data.handler, opaque |-> data.opaque,
                              ep |-> ep, msg |-> message])]
    IN  IF data.handler = MgmtHandler
        THEN apple_rtbuddy_handle_mgmt_msg(w1, ep, message)
        ELSE IF data.handler = ReplyHandler
        THEN apple_rtbuddy_send_user_msg(w1, ep, sram_addr)
        ELSE w1

\* the body of the loop of apple_rtbuddy_bh for one received message
Dispatch(w, msg) ==
    LET data == g_tree_lookup(w.endpoints, msg.endpoint)
    IN  IF data # NULL /\ data.handler # NULL
        THEN CallHandler(w, data, LogicalEp(data, msg), msg.msg)
        ELSE w

\* a bottom half that handles one message each time it runs
DispatchLoop_One(w) ==
    IF apple_a7iop_mailbox_is_empty(w, iop_mailbox("iop")) THEN w
    ELSE LET w1 == apple_a7iop_recv_iop(w)
         IN  IF w1.ret = NULL THEN [w1 EXCEPT !.crashed = TRUE]
             ELSE Dispatch(w1, w1.ret)

\* the loop of apple_rtbuddy_bh; msg->endpoint of a NULL msg ends the process
RECURSIVE DispatchLoop(_)
DispatchLoop(w) ==
    IF apple_a7iop_mailbox_is_empty(w, iop_mailbox("iop")) THEN w
    ELSE LET w1 == apple_a7iop_recv_iop(w)
         IN  IF w1.ret = NULL THEN [w1 EXCEPT !.crashed = TRUE]
             ELSE DispatchLoop(Dispatch(w1, w1.ret))

\* a bottom half that sends Hello again while the reply is outstanding
apple_rtbuddy_bh_Retry(w) ==
    LET w1 == DispatchLoop([w EXCEPT !.bh = "idle"])
    IN  [(IF w1.ep0_status = "EP0_WAIT_HELLO"
          THEN apple_rtbuddy_mgmt_send_hello(w1)
          ELSE w1) EXCEPT !.ret = VOID]

apple_rtbuddy_bh(w) ==
    [DispatchLoop([w EXCEPT !.bh = "idle"]) EXCEPT !.ret = VOID]

\* apple_a7iop_reset, the parent's reset
apple_a7iop_reset(w) == [w EXCEPT !.cpu_status = 0]

\* a reset that leaves the pending rollcall entries queued
apple_rtbuddy_reset_KeepsRollcall(w) ==
    SetPhase(apple_a7iop_reset(w), "EP0_IDLE", "apple_rtbuddy_reset")

apple_rtbuddy_reset(w) ==
    [SetPhase(apple_a7iop_reset(w), "EP0_IDLE", "apple_rtbuddy_reset")
        EXCEPT !.rollcall = <<>>]

---------------------------------------------------------------------------
(* Entry points of the mailbox objects: the guest's register accesses      *)
(* (regs-v4.c, on the register block of object s) and the device reset.    *)

Commit(w) ==
    /\ mbox' = w.mbox
    /\ bh' = w.bh
    /\ cpu_status' = w.cpu_status
    /\ cpu_ctrl' = w.cpu_ctrl
    /\ ep0_status' = w.ep0_status
    /\ rollcall' = w.rollcall
    /\ endpoints' = w.endpoints
    /\ crashed' = w.crashed
    /\ hs' = w.hs
    /\ last' = [ret |-> w.ret, log |-> w.log, ev |-> w.ev, tx |-> w.tx,
                calls |-> w.calls, hooks |-> w.hooks, trans |-> w.trans,
                upd |-> w.upd, acc |-> w.acc]

\* the enqueue of a write that ends on the last word of the IOP send
\* register, msg being what the send register then holds
RegWriteIopSend(s, msg) ==
    /\ ~crashed
    /\ Commit(apple_a7iop_mailbox_send_iop(World, s, msg))

\* the enqueue of a write that ends on the last word of the AP send
\* register, msg being what the send register then holds
RegWriteApSend(s, msg) ==
    /\ ~crashed
    /\ Commit(apple_a7iop_mailbox_send_ap(World, s, msg))

\* the dequeue of a read of REG_IOP_RECV0
RegReadIopRecv(s) ==
    /\ ~crashed
    /\ Commit(apple_a7iop_mailbox_recv_iop(World, s))

\* the dequeue of a read of REG_AP_RECV0
RegReadApRecv(s) ==
    /\ ~crashed
    /\ Commit(apple_a7iop_mailbox_recv_ap(World, s))

RegWriteIntMaskSet(s, value) ==
    /\ ~crashed
    /\ Commit(apple_a7iop_mailbox_set_int_mask(World, s, value))

RegWriteIntMaskClr(s, value) ==
    /\ ~crashed
    /\ Commit(apple_a7iop_mailbox_clear_int_mask(World, s, value))

RegWriteIopCtrl(s, value) ==
    /\ ~crashed
    /\ Commit(apple_a7iop_mailbox_set_iop_ctrl(World, s, value))

RegWriteApCtrl(s, value) ==
    /\ ~crashed
    /\ Commit(apple_a7iop_mailbox_set_ap_ctrl(World, s, value))

\* a read of REG_IOP_CTRL
RegReadIopCtrl(s) ==
    /\ ~crashed
    /\ Commit([Access(Access(World, s, s, {"dir_en"}), iop_mailbox(s),
                      iop_mailbox(s), {"underflow", "inbox", "count"})
                  EXCEPT !.ret =
                      [word |-> apple_a7iop_mailbox_get_iop_ctrl(World, s)]])

\* a read of REG_AP_CTRL
RegReadApCtrl(s) ==
    /\ ~crashed
    /\ Commit([Access(Access(World, s, s, {"dir_en"}), ap_mailbox(s),
                      ap_mailbox(s), {"underflow", "inbox", "count"})
                  EXCEPT !.ret =
                      [word |-> apple_a7iop_mailbox_get_ap_ctrl(World, s)]])

\* a write of 4 or 8 bytes to a word of a send register
RegWriteSend(s, side, i, size, data) ==
    /\ ~crashed
    /\ <<i, size>> \in Accesses(RegWords(World, s))
    /\ Commit(MmioWrite(World, s, side, i, size, data))

\* a read of 4 or 8 bytes of a word of a receive register
RegReadRecv(s, side, i, size) ==
    /\ ~crashed
    /\ <<i, size>> \in Accesses(RegWords(World, s))
    /\ Commit(MmioRead(World, s, side, i, size))

\* dc->reset of one mailbox object
MailboxReset(s) ==
    /\ ~crashed
    /\ Commit(apple_a7iop_mailbox_reset(World, s))

---------------------------------------------------------------------------
(* Entry points of the session: the bottom half of the "iop" mailbox, the  *)
(* CPU control register (a7iop/regs-v4.c), the device reset and the        *)
(* registration calls of the collaborator.                                 *)

BottomHalf ==
    /\ ~crashed
    /\ bh = "scheduled"
    /\ Commit(apple_rtbuddy_bh(World))

\* a write of REG_CPU_CTRL
RegWriteCpuCtrl(value) ==
    /\ ~crashed
    /\ Commit(apple_a7iop_set_cpu_ctrl(World, value))

\* a write of REG_CPU_STATUS (a7iop/regs-v2.c)
RegWriteCpuStatus(value) ==
    /\ ~crashed
    /\ Commit(apple_a7iop_set_cpu_status(World, value))

\* dc->reset of the RTBuddy device
DeviceReset ==
    /\ ~crashed
    /\ Commit(apple_rtbuddy_reset(World))

RegisterControlEp(ep, opaque, handler) ==
    /\ ~crashed
    /\ Commit(apple_rtbuddy_register_control_ep(World, ep, opaque, handler))

RegisterUserEp(ep, opaque, handler) ==
    /\ ~crashed
    /\ Commit(apple_rtbuddy_register_user_ep(World, ep, opaque, handler))

UnregisterControlEp(ep) ==
    /\ ~crashed
    /\ Commit(apple_rtbuddy_unregister_control_ep(World, ep))

UnregisterUserEp(ep) ==
    /\ ~crashed
    /\ Commit(apple_rtbuddy_unregister_user_ep(World, ep))

\* the collaborator sends to the AP
SendControlMsg(ep, data) ==
    /\ ~crashed
    /\ Commit(apple_rtbuddy_send_control_msg(World, ep, data))

SendUserMsg(ep, data) ==
    /\ ~crashed
    /\ Commit(apple_rtbuddy_send_user_msg(World, ep, data))

---------------------------------------------------------------------------
(* The observer of FIFO order: it appends what apple_a7iop_mailbox_send    *)
(* queued and what apple_a7iop_mailbox_recv returned, and starts again at  *)
(* a reset of the inbox.                                                   *)

RECURSIVE Replay(_, _, _)
Replay(h, ev, kind) ==
    IF ev = <<>> THEN h
    ELSE LET e == Head(ev)
             h1 == IF e.kind = "reset" THEN [h EXCEPT ![e.box] = <<>>]
                   ELSE IF e.kind = kind
                        THEN [h EXCEPT ![e.box] = Append(@, e.msg)]
                        ELSE h
         IN  Replay(h1, Tail(ev), kind)

Observe ==
    /\ enq' = Replay(enq, last'.ev, "enq")
    /\ deq' = Replay(deq, last'.ev, "deq")
    /\ UNCHANGED threads

Unobserved == UNCHANGED <<enq, deq, threads>>

NoLast ==
    [ret |-> VOID, log |-> <<>>, ev |-> <<>>, tx |-> <<>>, calls |-> <<>>,
     hooks |-> <<>>, trans |-> <<>>, upd |-> {}, acc |-> {}]

NoHandshake == [gen |-> <<>>, sent |-> <<>>, acks |-> 0]

NoHistory == [s \in Mailboxes |-> <<>>]

\* the threads that run entry points: two virtual CPUs of the AP and the
\* main loop, which runs the bottom half
Threads == {"cpu0", "cpu1", "main"}

\* one step of an entry point
Instr(op, s, fn, arg) == [op |-> op, s |-> s, fn |-> fn, arg |-> arg]

\* a thread outside every entry point
NoThread ==
    [prog |-> <<>>,   \* the steps of its entry point still to run
     held |-> <<>>,   \* the mutexes it holds, in the order it took them
     msg |-> NULL,    \* msg of apple_rtbuddy_bh
     val |-> 0,       \* what apple_a7iop_get_cpu_status returned to it
     n |-> 0]         \* the register accesses the virtual CPUs have begun

NoThreads == [t \in Threads |-> NoThread]

---------------------------------------------------------------------------
(* Specifications of the mailbox pair with no session on it                *)
(* (apple_a7iop_init with no bottom half, as hw/arm/apple-silicon/sep.c    *)
(* creates it): both register blocks are driven by their processors.       *)

\* the payloads and the control values the processors write
Payloads == {1, 2}
CtrlValues == {0, 1}

DataMessage(p) == Message(0, Raw(p, 0, 0, 0, 0), 0)

InitMailbox ==
    /\ mbox = [s \in Mailboxes |-> NewMailbox]
    /\ bh = "none"
    /\ cpu_status = 0
    /\ cpu_ctrl = 0
    /\ ep0_status = "EP0_IDLE"
    /\ rollcall = <<>>
    /\ endpoints = <<>>
    /\ crashed = FALSE
    /\ last = NoLast
    /\ hs = NoHandshake
    /\ enq = NoHistory
    /\ deq = NoHistory
    /\ threads = NoThreads

(* SpecFifo: enqueues and dequeues of both inboxes through both register   *)
(* blocks, and resets, with the order of the messages observed.            *)

HistoryRoom == Len(enq["iop"]) + Len(enq["ap"]) < MaxHistory

NextFifo ==
    \/ \E s \in Mailboxes, p \in Payloads :
           HistoryRoom
           /\ RegWriteIopSend(s, DataMessage(p)) /\ Observe
    \/ \E s \in Mailboxes, p \in Payloads :
           HistoryRoom
           /\ RegWriteApSend(s, DataMessage(p)) /\ Observe
    \/ \E s \in Mailboxes : RegReadIopRecv(s) /\ Observe
    \/ \E s \in Mailboxes : RegReadApRecv(s) /\ Observe
    \/ \E s \in Mailboxes : MailboxReset(s) /\ Observe

SpecFifo == InitMailbox /\ [][NextFifo]_vars

(* SpecGate: enqueues and dequeues while the processors switch the        *)
(* direction enables of both register blocks.                              *)

NextGate ==
    \/ \E s \in Mailboxes, p \in Payloads :
           Len(mbox["iop"].inbox) < MaxQueue
           /\ RegWriteIopSend(s, DataMessage(p)) /\ Unobserved
    \/ \E s \in Mailboxes, p \in Payloads :
           Len(mbox["ap"].inbox) < MaxQueue
           /\ RegWriteApSend(s, DataMessage(p)) /\ Unobserved
    \/ \E s \in Mailboxes : RegReadIopRecv(s) /\ Unobserved
    \/ \E s \in Mailboxes : RegReadApRecv(s) /\ Unobserved
    \/ \E s \in Mailboxes, v \in CtrlValues :
           RegWriteIopCtrl(s, v) /\ Unobserved
    \/ \E s \in Mailboxes, v \in CtrlValues :
           RegWriteApCtrl(s, v) /\ Unobserved
    \/ \E s \in Mailboxes : MailboxReset(s) /\ Unobserved

SpecGate == InitMailbox /\ [][NextGate]_vars

(* SpecIrq: enqueues, dequeues and resets while the processors set and    *)
(* clear bits of the interrupt masks of both register blocks.              *)

MaskValues == {IOP_NONEMPTY, AP_NONEMPTY, IOP_EMPTY + AP_EMPTY}

NextIrq ==
    \/ \E s \in Mailboxes :
           Len(mbox["iop"].inbox) < MaxLevel
           /\ RegWriteIopSend(s, DataMessage(1)) /\ Unobserved
    \/ \E s \in Mailboxes :
           Len(mbox["ap"].inbox) < MaxLevel
           /\ RegWriteApSend(s, DataMessage(1)) /\ Unobserved
    \/ \E s \in Mailboxes : RegReadIopRecv(s) /\ Unobserved
    \/ \E s \in Mailboxes : RegReadApRecv(s) /\ Unobserved
    \/ \E s \in Mailboxes, v \in MaskValues :
           RegWriteIntMaskSet(s, v) /\ Unobserved
    \/ \E s \in Mailboxes, v \in MaskValues :
           RegWriteIntMaskClr(s, v) /\ Unobserved
    \/ \E s \in Mailboxes : MailboxReset(s) /\ Unobserved

SpecIrq == InitMailbox /\ [][NextIrq]_vars

(* SpecFill: the two inboxes filled beyond the reported depth, without a   *)
(* dequeue, and their status words read.                                   *)

NextFill ==
    \/ \E s \in Mailboxes :
           Len(mbox["iop"].inbox) < MaxFill
           /\ RegWriteIopSend(s, DataMessage(1)) /\ Observe
    \/ \E s \in Mailboxes :
           Len(mbox["ap"].inbox) < MaxFill
           /\ RegWriteApSend(s, DataMessage(1)) /\ Observe
    \/ \E s \in Mailboxes : RegReadIopCtrl(s) /\ Observe
    \/ \E s \in Mailboxes : RegReadApCtrl(s) /\ Observe
    \/ \E s \in Mailboxes : MailboxReset(s) /\ Observe

SpecFill == InitMailbox /\ [][NextFill]_vars

---------------------------------------------------------------------------
(* Claims checked under SpecFifo.                                          *)

\* what the sender wrote: the endpoint and the payload, without the flags
\* that the dequeue stamps
Sent(seq) == [i \in 1..Len(seq) |-> <<seq[i].endpoint, seq[i].msg>>]

IsPrefix(a, b) == Len(a) <= Len(b) /\ SubSeq(b, 1, Len(a)) = a

\* an event of the given kind on inbox s among the events of one entry point
Happened(ev, kind, s) ==
    \E i \in 1..Len(ev) : ev[i].kind = kind /\ ev[i].box = s

(* C1: FIFO order.  On each inbox the messages dequeued since its last     *)
(* reset are, in order, a prefix of the messages enqueued since then, and  *)
(* the rest of the enqueued messages is exactly what the inbox still       *)
(* holds, in order: N enqueues followed by N dequeues return the N         *)
(* payloads in enqueue order.                                              *)
C1_FifoOrder ==
    \A s \in Mailboxes :
        /\ IsPrefix(Sent(deq[s]), Sent(enq[s]))
        /\ Sent(enq[s]) = Sent(deq[s]) \o Sent(mbox[s].inbox)

\* two different payloads dequeued in the order they were enqueued, while a
\* third message enqueued in between is still queued
C1_Witness ==
    \E s \in Mailboxes :
        /\ Len(deq[s]) = 2
        /\ deq[s][1].msg # deq[s][2].msg
        /\ Len(mbox[s].inbox) = 1
        /\ ~mbox[s].underflow

(* C2: sticky underflow.  (a) A dequeue on an empty inbox that has not     *)
(* underflowed sets underflow and returns nothing.  (b) While underflow is *)
(* set, every dequeue returns nothing and removes nothing, also through    *)
(* the two gated receive entry points.  (c) A step that does not reset the *)
(* inbox leaves underflow set and dequeues nothing from it, whatever is    *)
(* enqueued.  (d) A step that resets the inbox leaves underflow false and  *)
(* the inbox empty, from where C1 is the normal FIFO behaviour.            *)
C2_DequeueOnEmpty ==
    \A s \in Mailboxes :
        (~mbox[s].underflow /\ mbox[s].inbox = <<>>) =>
            LET w == apple_a7iop_mailbox_recv(World, s)
            IN  w.mbox[s].underflow /\ w.ret = NULL

C2_DequeueUnderflowed ==
    \A s \in Mailboxes :
        mbox[s].underflow =>
            /\ apple_a7iop_mailbox_recv(World, s).ret = NULL
            /\ apple_a7iop_mailbox_recv(World, s).mbox = mbox
            /\ \A o \in Mailboxes :
                   /\ iop_mailbox(o) = s =>
                          apple_a7iop_mailbox_recv_iop(World, o).ret = NULL
                   /\ ap_mailbox(o) = s =>
                          apple_a7iop_mailbox_recv_ap(World, o).ret = NULL

C2_StaysUntilReset ==
    \A s \in Mailboxes :
        (mbox[s].underflow /\ ~Happened(last'.ev, "reset", s)) =>
            /\ mbox'[s].underflow
            /\ ~Happened(last'.ev, "deq", s)
            /\ IsPrefix(mbox[s].inbox, mbox'[s].inbox)

C2_ResetClears ==
    \A s \in Mailboxes :
        Happened(last'.ev, "reset", s) =>
            ~mbox'[s].underflow /\ mbox'[s].inbox = <<>>

C2_StickyUnderflow ==
    /\ [](C2_DequeueOnEmpty /\ C2_DequeueUnderflowed)
    /\ [][C2_StaysUntilReset /\ C2_ResetClears]_vars

\* a dequeue that returned nothing, silently, from an underflowed inbox
\* that holds a message enqueued after the underflow
C2_Witness ==
    \E s \in Mailboxes :
        /\ mbox[s].underflow
        /\ mbox[s].inbox # <<>>
        /\ last.ret = NULL
        /\ last.log = <<>>

---------------------------------------------------------------------------
(* Claims checked under SpecFill.                                          *)

\* the fields of a status word
StatusFull(word) == (word \div Pow2(16)) % 2 = 1
StatusEmpty(word) == (word \div Pow2(17)) % 2 = 1
StatusOverflow(word) == (word \div Pow2(18)) % 2 = 1
StatusUnderflow(word) == (word \div Pow2(19)) % 2 = 1
StatusCount(word) == (word \div Pow2(20)) % 16

Least(a, b) == IF a <= b THEN a ELSE b

(* C3: saturating count.  With K messages enqueued on an inbox since its   *)
(* reset and none dequeued, the status word read through either register   *)
(* block reports count = min(K, 15) and full = (min(K, 15) >= 15); and an  *)
(* enqueue on an enabled direction appends the message however many are    *)
(* queued.                                                                 *)
C3_SaturatingCount ==
    /\ \A s \in Mailboxes :
           (deq[s] = <<>> /\ ~mbox[s].underflow) =>
               LET K == Len(enq[s])
                   word == apple_a7iop_mailbox_ctrl(World, s)
               IN  /\ StatusCount(word) = Least(K, 15)
                   /\ StatusFull(word) = (Least(K, 15) >= 15)
                   /\ Len(mbox[s].inbox) = K
    /\ \A o \in Mailboxes :
           /\ StatusCount(apple_a7iop_mailbox_get_iop_ctrl(World, o))
                  = StatusCount(apple_a7iop_mailbox_ctrl(World, "iop"))
           /\ StatusCount(apple_a7iop_mailbox_get_ap_ctrl(World, o))
                  = StatusCount(apple_a7iop_mailbox_ctrl(World, "ap"))
           /\ mbox[o].iop_dir_en =>
                  apple_a7iop_mailbox_send_iop(World, o, DataMessage(1))
                      .mbox["iop"].inbox
                  = Append(mbox["iop"].inbox, DataMessage(1))
           /\ mbox[o].ap_dir_en =>
                  apple_a7iop_mailbox_send_ap(World, o, DataMessage(1))
                      .mbox["ap"].inbox
                  = Append(mbox["ap"].inbox, DataMessage(1))

\* sixteen messages enqueued and none dequeued, and the status word just
\* read: enabled, full, count 15
C3_Witness ==
    /\ Len(enq["iop"]) = 16
    /\ deq["iop"] = <<>>
    /\ last.ret = [word |-> 1 + Pow2(16) + 15 * Pow2(20)]

---------------------------------------------------------------------------
(* Specifications of a channel owned by an RTBuddy session.                *)

\* the registry entry of an endpoint id: the management and crash log
\* endpoints as apple_rtbuddy_init registers them, the others as a
\* collaborator does
EpData(id) ==
    IF id = EP_MANAGEMENT
    THEN [opaque |-> Self, handler |-> MgmtHandler, user |-> FALSE]
    ELSE IF id = EP_CRASHLOG
    THEN [opaque |-> Self, handler |-> NULL, user |-> FALSE]
    ELSE [opaque |-> Collaborator, handler |-> Handler,
          user |-> id >= EP_USER_START]

\* the state apple_rtbuddy_init leaves, with the endpoints ids registered
InitRTBuddy(ids) ==
    /\ mbox = [s \in Mailboxes |-> NewMailbox]
    /\ bh = "idle"
    /\ cpu_status = 0
    /\ cpu_ctrl = 0
    /\ ep0_status = "EP0_IDLE"
    /\ rollcall = <<>>
    /\ endpoints = [id \in ids |-> EpData(id)]
    /\ crashed = FALSE
    /\ last = NoLast
    /\ hs = NoHandshake
    /\ enq = NoHistory
    /\ deq = NoHistory
    /\ threads = NoThreads

InFlight == Len(mbox["iop"].inbox) + Len(mbox["ap"].inbox)

\* management messages of the AP
MgmtMessage(f0, f32, type) == Message(EP_MANAGEMENT, Raw(f0, f32, 0, type, 0), 0)
RecvHello == MgmtMessage(0, 0, MSG_RECV_HELLO)
RollcallAckMsg == MgmtMessage(0, 0, MSG_TYPE_ROLLCALL)

(* SpecRollcall: the handshake of a session whose collaborator has left    *)
(* any set of endpoint ids of the first blocks registered.                 *)

RollcallIds ==
    {0, 1, 30, 33} \cup {b * EP_USER_START : b \in 1..MaxBlock}

InitRollcall == \E ids \in SUBSET RollcallIds : InitRTBuddy(ids)

NextRollcall ==
    \/ \E s \in Mailboxes : MailboxReset(s) /\ Unobserved
    \/ DeviceReset /\ Unobserved
    \/ \E v \in {0, CPU_CTRL_RUN} :
           InFlight < MaxPending /\ RegWriteCpuCtrl(v) /\ Unobserved
    \/ \E msg \in {RecvHello, RollcallAckMsg} :
           InFlight < MaxPending
           /\ RegWriteIopSend("ap", msg) /\ Unobserved
    \/ BottomHalf /\ Unobserved
    \/ RegReadApRecv("ap") /\ Unobserved

SpecRollcall == InitRollcall /\ [][NextRollcall]_vars

Ping(seg, timestamp) == MgmtMessage(seg, timestamp, MSG_TYPE_PING)
SetIopPstate(state) == MgmtMessage(state, 0, MSG_TYPE_SET_IOP_PSTATE)
EndpointMessage(ep) == Message(ep, Raw(5, 0, 0, 0, 0), 0)

(* SpecSession: a session with the endpoints of apple_rtbuddy_init and a   *)
(* user endpoint its collaborator registers at construction, and an AP     *)
(* that starts the coprocessor and sends management messages.              *)

InitSession == InitRTBuddy({EP_MANAGEMENT, EP_CRASHLOG, EP_USER_START + 1})

SessionMessages ==
    {Ping(7, 9), RecvHello, RollcallAckMsg, SetIopPstate(PSTATE_ON),
     SetIopPstate(PSTATE_SLPNOMEM)}

NextSession ==
    \/ \E s \in Mailboxes : MailboxReset(s) /\ Unobserved
    \/ DeviceReset /\ Unobserved
    \/ \E v \in {0, CPU_CTRL_RUN} :
           InFlight < MaxInFlight /\ RegWriteCpuCtrl(v) /\ Unobserved
    \/ \E msg \in SessionMessages :
           InFlight < MaxInFlight
           /\ RegWriteIopSend("ap", msg) /\ Unobserved
    \/ BottomHalf /\ Unobserved
    \/ RegReadApRecv("ap") /\ Unobserved

SpecSession == InitSession /\ [][NextSession]_vars

(* SpecDispatch: a session whose collaborator registers and unregisters a  *)
(* control and a user endpoint while the AP sends messages to them, to the *)
(* crash log endpoint and to the management endpoint.                      *)

InitDispatch == InitRTBuddy({EP_MANAGEMENT, EP_CRASHLOG})

DispatchMessages ==
    {Ping(7, 9), RecvHello, EndpointMessage(EP_CRASHLOG), EndpointMessage(2),
     EndpointMessage(EP_USER_START + 1)}

NextDispatch ==
    \/ \E s \in Mailboxes : MailboxReset(s) /\ Unobserved
    \/ InFlight < MaxInFlight /\ RegWriteCpuCtrl(CPU_CTRL_RUN) /\ Unobserved
    \/ \E msg \in DispatchMessages :
           InFlight < MaxInFlight
           /\ RegWriteIopSend("ap", msg) /\ Unobserved
    \/ BottomHalf /\ Unobserved
    \/ RegReadApRecv("ap") /\ Unobserved
    \/ RegisterControlEp(2, Collaborator, Handler) /\ Unobserved
    \/ UnregisterControlEp(2) /\ Unobserved
    \/ RegisterUserEp(1, Collaborator, Handler) /\ Unobserved
    \/ UnregisterUserEp(1) /\ Unobserved

SpecDispatch == InitDispatch /\ [][NextDispatch]_vars

---------------------------------------------------------------------------
(* Claims checked under SpecGate.                                          *)

\* what a send on a disabled direction leaves: nothing changed, nothing
\* queued, no bottom half scheduled, no line recomputed, one diagnostic
GatedSend(w, fn, s) ==
    /\ w.mbox = mbox
    /\ w.bh = bh
    /\ w.ev = <<>>
    /\ w.upd = {}
    /\ w.log = <<<<fn, s, "direction not enabled">>>>

\* the caller is told: the call returns something else than an accepted send
ReportedToCaller(w) == w.ret # VOID

GatedSends(Reported(_)) ==
    \A p \in Payloads :
        /\ ~mbox["iop"].ap_dir_en =>
               LET w == apple_a7iop_send_ap(World, DataMessage(p))
               IN  GatedSend(w, "apple_a7iop_mailbox_send_ap", "iop")
                   /\ Reported(w)
        /\ ~mbox["ap"].iop_dir_en =>
               LET w == apple_a7iop_send_iop(World, DataMessage(p))
               IN  GatedSend(w, "apple_a7iop_mailbox_send_iop", "ap")
                   /\ Reported(w)
        /\ ~mbox["ap"].ap_dir_en =>
               LET w == apple_a7iop_mailbox_send_ap(World, "ap", DataMessage(p))
               IN  GatedSend(w, "apple_a7iop_mailbox_send_ap", "ap")
                   /\ Reported(w)
        /\ ~mbox["iop"].iop_dir_en =>
               LET w == apple_a7iop_mailbox_send_iop(World, "iop",
                                                     DataMessage(p))
               IN  GatedSend(w, "apple_a7iop_mailbox_send_iop", "iop")
                   /\ Reported(w)

\* the functions return void: an accepted and a refused send return alike
ReturnsVoid(w) == w.ret = VOID

---------------------------------------------------------------------------
(* Claims checked under SpecRollcall.                                      *)

\* a rollcall message as {mask, block, ended}
RollcallEntry(m) ==
    [mask |-> m.msg.field_0, block |-> m.msg.field_32 % 64,
     ended |-> (m.msg.field_48 \div 8) % 2 = 1]

RollcallEntries(msgs) == [i \in DOMAIN msgs |-> RollcallEntry(msgs[i])]

\* what rollcall construction makes of the registry now: the message it
\* sends, then the ones it leaves pending
Generated ==
    LET w == iop_start_rollcall(World) IN <<w.tx[Len(w.tx)]>> \o w.rollcall

BlockOf(id) == id \div 32

\* the OR of 1 << (id % 32) over ids of one block, whose bits are distinct
RECURSIVE MaskOf(_)
MaskOf(ids) ==
    IF ids = {} THEN 0
    ELSE LET id == CHOOSE i \in ids : TRUE
         IN  Pow2(id % 32) + MaskOf(ids \ {id})

RECURSIVE Ascending(_)
Ascending(set) ==
    IF set = {} THEN <<>>
    ELSE LET least == CHOOSE x \in set : \A y \in set : x <= y
         IN  <<least>> \o Ascending(set \ {least})

\* one entry per block holding a registered id >= 1, in ascending block
\* order, the last one ended
Partition(ids) ==
    LET listed == {id \in ids : id >= 1}
        blocks == Ascending({BlockOf(id) : id \in listed})
    IN  IF blocks = <<>> THEN <<[mask |-> 0, block |-> 0, ended |-> TRUE]>>
        ELSE [i \in 1..Len(blocks) |->
                 [mask |-> MaskOf({id \in listed : BlockOf(id) = blocks[i]}),
                  block |-> blocks[i],
                  ended |-> i = Len(blocks)]]

ExamplePartition ==
    <<[mask |-> 2, block |-> 0, ended |-> FALSE],
      [mask |-> 1, block |-> 1, ended |-> TRUE]>>

(* C5: rollcall partitioning.  For every set of registered endpoint ids,   *)
(* rollcall construction produces, in ascending block order, exactly one   *)
(* message per block (id / 32) that contains a registered id >= 1, whose   *)
(* mask is the OR of 1 << (id % 32) over the registered ids of that block; *)
(* only the last message has ended set; with no id >= 1 the result is the  *)
(* single message {mask 0, block 0, ended}.  For ids {0, 1, 32} it is      *)
(* {mask 2, block 0, not ended} then {mask 1, block 1, ended}.  This holds *)
(* of the construction applied to any reachable state and of the entries   *)
(* the handshake in progress has generated.                                *)
C5_RollcallPartition ==
    LET generated == Generated
        entries == RollcallEntries(generated)
        partition == Partition(DOMAIN endpoints)
    IN  /\ entries = partition
        /\ \A i \in DOMAIN generated :
               /\ generated[i].endpoint = EP_MANAGEMENT
               /\ generated[i].msg.type = MSG_TYPE_ROLLCALL
        /\ DOMAIN endpoints = {0, 1, 32} => entries = ExamplePartition
        /\ hs.gen # <<>> => RollcallEntries(hs.gen) = partition

\* the session with ids {0, 1, 32} has just built its rollcall on a hello
C5_Witness ==
    /\ DOMAIN endpoints = {0, 1, 32}
    /\ ep0_status = "EP0_WAIT_ROLLCALL"
    /\ \E i \in DOMAIN last.trans : last.trans[i].by = "iop_start_rollcall"
    /\ RollcallEntries(last.tx \o rollcall) = ExamplePartition

SetApPstateAck32 ==
    Message(EP_MANAGEMENT, Raw(32, 0, 0, MSG_TYPE_SET_AP_PSTATE_ACK, 0), 0)

---------------------------------------------------------------------------
(* Claims checked under SpecSession.                                       *)

PingAck(seg, timestamp) == MgmtMessage(seg, timestamp, MSG_TYPE_PING_ACK)

(* C7: Ping is phase-neutral.  In every reachable state of the session, in *)
(* whatever phase, handling a management Ping{seg, timestamp} (whatever    *)
(* its other bits) hands exactly one message to send_to_ap, the PingAck    *)
(* with the same seg and timestamp, and leaves the session phase and the   *)
(* pending rollcall queue unchanged; the AP inbox receives that reply when *)
(* the direction toward the AP is enabled.                                 *)
C7_PingNeutral ==
    \A seg \in {0, 7}, timestamp \in {0, 9}, f48 \in {0, 5}, hi \in {0, 1} :
        LET w == apple_rtbuddy_handle_mgmt_msg(
                     World, EP_MANAGEMENT,
                     Raw(seg, timestamp, f48, MSG_TYPE_PING, hi))
        IN  /\ w.tx = <<PingAck(seg, timestamp)>>
            /\ w.ep0_status = ep0_status
            /\ w.trans = <<>>
            /\ w.rollcall = rollcall
            /\ w.hs = hs
            /\ w.mbox["ap"].inbox =
                   IF mbox["iop"].ap_dir_en
                   THEN Append(mbox["ap"].inbox, PingAck(seg, timestamp))
                   ELSE mbox["ap"].inbox

\* the bottom half has just handled a Ping in WaitRollcall, with a rollcall
\* entry pending
C7_Witness ==
    /\ ep0_status = "EP0_WAIT_ROLLCALL"
    /\ rollcall # <<>>
    /\ last.calls = <<[handler |-> MgmtHandler, opaque |-> Self,
                       ep |-> EP_MANAGEMENT, msg |-> Ping(7, 9).msg]>>
    /\ last.tx = <<PingAck(7, 9)>>
    /\ mbox["ap"].inbox # <<>>
    /\ mbox["ap"].inbox[Len(mbox["ap"].inbox)] = PingAck(7, 9)

\* the edges of the handshake
Edge(from, to, by) == [from |-> from, to |-> to, by |-> by]

StartEdge(from) == Edge(from, "EP0_WAIT_HELLO", "apple_rtbuddy_mgmt_send_hello")
HelloEdge == Edge("EP0_WAIT_HELLO", "EP0_WAIT_ROLLCALL", "iop_start_rollcall")
DoneEdge == Edge("EP0_WAIT_ROLLCALL", "EP0_IDLE", "apple_rtbuddy_handle_mgmt_msg")

\* the assignments to the phase the last entry point made lead from the
\* phase it found to the phase now
Chained(trans) ==
    /\ trans # <<>> => trans[Len(trans)].to = ep0_status
    /\ \A i \in 1..(Len(trans) - 1) : trans[i].to = trans[i + 1].from

PhaseOrder(edges) ==
    /\ Chained(last.trans)
    /\ \A i \in DOMAIN last.trans :
           LET e == last.trans[i]
           IN  \/ e.by = "apple_rtbuddy_reset" /\ e.to = "EP0_IDLE"
               \/ e.from = e.to
               \/ e \in edges

(* C10, as amended: handshake phase order.  Apart from reset (which        *)
(* returns to Idle), the session phase only ever changes along the edges   *)
(* Idle -> WaitHello (coprocessor start or wake), WaitRollcall ->          *)
(* WaitHello (coprocessor start by a control write with the run bit while  *)
(* the rollcall is in progress), WaitHello -> WaitRollcall (RecvHello      *)
(* received) and WaitRollcall -> Idle (Rollcall acknowledgement with the   *)
(* pending queue empty).                                                   *)
C10_PhaseOrder ==
    /\ PhaseOrder({StartEdge("EP0_IDLE"), StartEdge("EP0_WAIT_ROLLCALL"),
                   HelloEdge, DoneEdge})
    /\ \A i \in DOMAIN last.trans :
           last.trans[i] = StartEdge("EP0_WAIT_ROLLCALL") =>
               last.hooks = <<"start">>

(* C10, as claimed: the phase only changes along Idle -> WaitHello,        *)
(* WaitHello -> WaitRollcall and WaitRollcall -> Idle.                     *)
C10_PhaseOrderClaimed ==
    PhaseOrder({StartEdge("EP0_IDLE"), HelloEdge, DoneEdge})

\* a control write with the run bit has just taken the session from
\* WaitRollcall back to WaitHello
C10_Witness ==
    /\ last.trans = <<StartEdge("EP0_WAIT_ROLLCALL")>>
    /\ last.hooks = <<"start">>
    /\ ep0_status = "EP0_WAIT_HELLO"
    /\ cpu_ctrl = CPU_CTRL_RUN

---------------------------------------------------------------------------
(* Claims checked under SpecDispatch.                                      *)

\* the messages the dispatch task is tried on: to the management, crash
\* log, control and user endpoints the collaborator uses, and to two
\* endpoints nobody registers
ProbeMessages ==
    {Message(ep, Raw(p, 0, 0, type, 0), 0) :
        ep \in {EP_MANAGEMENT, EP_CRASHLOG, 2, 5, EP_USER_START + 1,
                EP_USER_START + 2},
        p \in {5}, type \in {0, MSG_TYPE_PING, MSG_RECV_HELLO}}

HasHandler(registry, id) ==
    id \in DOMAIN registry /\ registry[id].handler # NULL

\* the invocation the registry entry of the message's endpoint is owed
Invocation(registry, msg) ==
    [handler |-> registry[msg.endpoint].handler,
     opaque |-> registry[msg.endpoint].opaque,
     ep |-> IF msg.endpoint >= 32 THEN msg.endpoint - 32 ELSE msg.endpoint,
     msg |-> msg.msg]

RECURSIVE Invocations(_, _)
Invocations(registry, msgs) ==
    IF msgs = <<>> THEN <<>>
    ELSE (IF HasHandler(registry, Head(msgs).endpoint)
          THEN <<Invocation(registry, Head(msgs))>>
          ELSE <<>>) \o Invocations(registry, Tail(msgs))

\* the messages an entry point has taken from the "iop" inbox
RECURSIVE Taken(_)
Taken(ev) ==
    IF ev = <<>> THEN <<>>
    ELSE (IF Head(ev).kind = "deq" /\ Head(ev).box = "iop"
          THEN <<Head(ev).msg>>
          ELSE <<>>) \o Taken(Tail(ev))

Payload(msgs) == [i \in DOMAIN msgs |-> [endpoint |-> msgs[i].endpoint,
                                         msg |-> msgs[i].msg]]

(* C9: endpoint dispatch.  For every message the dispatch task takes, if   *)
(* its endpoint id is in the registry with a handler, that handler is      *)
(* invoked exactly once with (opaque, logical id, payload), the logical id *)
(* being id - 32 for a user endpoint (id >= 32) and id for a control       *)
(* endpoint; if the id is not registered or has no handler, no handler is  *)
(* invoked and nothing of the session changes, its phase included.  A run  *)
(* of the dispatch task takes every message of the inbox, in order, and    *)
(* makes exactly the invocations owed to them, in order.                   *)
C9_Dispatch ==
    /\ \A msg \in ProbeMessages :
           LET w == Dispatch(World, msg)
           IN  IF HasHandler(endpoints, msg.endpoint)
               THEN /\ w.calls # <<>>
                    /\ w.calls = <<Invocation(endpoints, msg)>>
               ELSE w = World
    /\ LET w == apple_rtbuddy_bh(World)
       IN  ~w.crashed =>
               /\ Payload(Taken(w.ev)) = Payload(mbox["iop"].inbox)
               /\ w.mbox["iop"].inbox = <<>>
               /\ w.calls = Invocations(endpoints, mbox["iop"].inbox)
               /\ w.calls = <<>> => w.ep0_status = ep0_status

\* a run of the dispatch task has just taken a message for an endpoint
\* nobody has registered and a message for user endpoint 33, and has
\* invoked the handler of the latter with logical id 1
C9_Witness ==
    /\ Payload(Taken(last.ev)) =
           Payload(<<EndpointMessage(2), EndpointMessage(EP_USER_START + 1)>>)
    /\ last.calls = <<[handler |-> Handler, opaque |-> Collaborator,
                       ep |-> 1, msg |-> EndpointMessage(EP_USER_START + 1).msg]>>
    /\ mbox["iop"].inbox = <<>>
    /\ 2 \notin DOMAIN endpoints

---------------------------------------------------------------------------
(* Claims checked under SpecIrq.                                           *)

Masked(int_mask, bit) == (int_mask \div bit) % 2 = 1

\* the lines of object s agree with a derivation of the nonempty lines
LinesAre(s, Nonempty(_, _, _)) ==
    LET m == mbox[s].int_mask
        iop == mbox["iop"]
        ap == mbox["ap"]
    IN  /\ mbox[s].irqs.iop_nonempty <=>
               Nonempty(Masked(m, IOP_NONEMPTY), iop.inbox # <<>>,
                        iop.underflow)
        /\ mbox[s].irqs.ap_nonempty <=>
               Nonempty(Masked(m, AP_NONEMPTY), ap.inbox # <<>>, ap.underflow)
        /\ mbox[s].irqs.iop_empty <=>
               (~Masked(m, IOP_EMPTY) /\ iop.inbox = <<>>)
        /\ mbox[s].irqs.ap_empty <=>
               (~Masked(m, AP_EMPTY) /\ ap.inbox = <<>>)

NonemptyOrUnderflowed(masked, nonempty, underflow) ==
    (~masked /\ nonempty) \/ underflow

NonemptyUnlessMasked(masked, nonempty, underflow) ==
    ~masked /\ (nonempty \/ underflow)

(* C8, as amended: interrupt-line derivation.  After every mailbox         *)
(* operation, for each object whose lines it recomputed and each side X in *)
(* {IOP, AP}, the nonempty(X) line is asserted exactly when X is           *)
(* underflowed or the nonempty(X) condition is not masked and queue X is   *)
(* non-empty, and the empty(X) line is asserted exactly when the empty(X)  *)
(* condition is not masked and queue X is empty; a masked nonempty line is *)
(* asserted exactly while X is underflowed.                                *)
C8_IrqDerivation ==
    \A s \in last.upd : LinesAre(s, NonemptyOrUnderflowed)

(* C8, as claimed: the nonempty(X) line is asserted exactly when the       *)
(* condition is not masked and (queue X is non-empty or X is underflowed); *)
(* in particular a masked nonempty line is never asserted.                 *)
C8_IrqDerivationClaimed ==
    \A s \in last.upd :
        /\ LinesAre(s, NonemptyUnlessMasked)
        /\ Masked(mbox[s].int_mask, IOP_NONEMPTY) => ~mbox[s].irqs.iop_nonempty
        /\ Masked(mbox[s].int_mask, AP_NONEMPTY) => ~mbox[s].irqs.ap_nonempty

\* a dequeue has just underflowed the AP inbox through a register block
\* whose nonempty(AP) condition is masked, and the line is asserted
C8_Witness ==
    /\ "ap" \in last.upd
    /\ last.ret = NULL
    /\ Masked(mbox["ap"].int_mask, AP_NONEMPTY)
    /\ mbox["ap"].underflow
    /\ mbox["ap"].irqs.ap_nonempty
    /\ ~mbox["ap"].irqs.iop_nonempty

---------------------------------------------------------------------------
(* SpecStatus: the two inboxes filled, drained and underflowed through     *)
(* both register blocks, and their status words read.                      *)

MaxDepth == 16

NextStatus ==
    \/ \E s \in Mailboxes :
           Len(mbox["iop"].inbox) < MaxDepth
           /\ RegWriteIopSend(s, DataMessage(1)) /\ Unobserved
    \/ \E s \in Mailboxes :
           Len(mbox["ap"].inbox) < MaxDepth
           /\ RegWriteApSend(s, DataMessage(1)) /\ Unobserved
    \/ \E s \in Mailboxes : RegReadIopRecv(s) /\ Unobserved
    \/ \E s \in Mailboxes : RegReadApRecv(s) /\ Unobserved
    \/ \E s \in Mailboxes : RegReadIopCtrl(s) /\ Unobserved
    \/ \E s \in Mailboxes : RegReadApCtrl(s) /\ Unobserved
    \/ \E s \in Mailboxes : MailboxReset(s) /\ Unobserved

SpecStatus == InitMailbox /\ [][NextStatus]_vars

\* the four fields of a status word
StatusFields(word) ==
    [full |-> StatusFull(word), empty |-> StatusEmpty(word),
     underflow |-> StatusUnderflow(word), count |-> StatusCount(word)]

\* the fields as derived from the state of inbox s
DerivedFields(s) ==
    [full |-> Least(mbox[s].count, 15) >= 15,
     empty |-> Len(mbox[s].inbox) = 0,
     underflow |-> mbox[s].underflow,
     count |-> Least(mbox[s].count, 15)]

UnderflowOnly ==
    [full |-> FALSE, empty |-> FALSE, underflow |-> TRUE, count |-> 0]

\* the words the two status registers of block o return
StatusReads(o) ==
    /\ apple_a7iop_mailbox_get_iop_ctrl(World, o)
           = BitOr(CTRL_ENABLE(mbox[o].iop_dir_en),
                   apple_a7iop_mailbox_ctrl(World, "iop"))
    /\ apple_a7iop_mailbox_get_ap_ctrl(World, o)
           = BitOr(CTRL_ENABLE(mbox[o].ap_dir_en),
                   apple_a7iop_mailbox_ctrl(World, "ap"))

(* C11, as amended: status word.  In every reachable state a status read   *)
(* of an inbox that is not underflowed reports full = (min(count, 15) >=   *)
(* 15), empty = (queue length = 0), underflow clear and count =            *)
(* min(count, 15); a status read of an underflowed inbox reports the       *)
(* underflow bit alone, with full, empty and count all zero whatever the   *)
(* queue holds.                                                            *)
C11_StatusWord ==
    /\ \A s \in Mailboxes :
           StatusFields(apple_a7iop_mailbox_ctrl(World, s))
               = IF mbox[s].underflow THEN UnderflowOnly
                 ELSE DerivedFields(s)
    /\ \A o \in Mailboxes : StatusReads(o)

(* C11, as claimed: in every reachable state, also after an underflow, a   *)
(* status read reports full = (min(count, 15) >= 15), empty = (queue       *)
(* length = 0), the underflow bit equal to the underflow flag and count =  *)
(* min(count, 15).                                                         *)
C11_StatusWordClaimed ==
    \A s \in Mailboxes :
        StatusFields(apple_a7iop_mailbox_ctrl(World, s)) = DerivedFields(s)

\* the IOP inbox underflowed, one message enqueued on it afterwards, and
\* the status word just read: enabled and underflowed, nothing else
C11_Witness ==
    /\ mbox["iop"].underflow
    /\ Len(mbox["iop"].inbox) = 1
    /\ last.ret = [word |-> 1 + Pow2(19)]

---------------------------------------------------------------------------
(* Further claims checked under SpecGate.                                  *)

(* C12: count invariant.  In every reachable state in which an inbox is    *)
(* not underflowed, its count field equals the number of messages in its   *)
(* queue, after any sequence of enqueues, dequeues, refused operations and *)
(* resets.                                                                 *)
C12_CountInvariant ==
    \A s \in Mailboxes :
        ~mbox[s].underflow => mbox[s].count = Len(mbox[s].inbox)

\* a dequeue from the AP inbox has just been refused while two messages
\* are queued and counted on it
C12_Witness ==
    /\ last.log = <<<<"apple_a7iop_mailbox_recv_ap", "iop",
                      "direction not enabled">>>>
    /\ ~mbox["ap"].underflow
    /\ Len(mbox["ap"].inbox) = 2
    /\ mbox["ap"].count = 2

---------------------------------------------------------------------------
(* SpecTotal: a session whose AP pushes messages, pops messages and        *)
(* switches the direction enables of both register blocks between the      *)
(* runs of the bottom half.                                                *)

MaxWaiting == 2

TotalMessages == {Ping(7, 9), EndpointMessage(EP_CRASHLOG)}

NextTotal ==
    \/ \E s \in Mailboxes : MailboxReset(s) /\ Unobserved
    \/ \E s \in Mailboxes, msg \in TotalMessages :
           InFlight < MaxWaiting
           /\ RegWriteIopSend(s, msg) /\ Unobserved
    \/ \E s \in Mailboxes, v \in CtrlValues :
           RegWriteIopCtrl(s, v) /\ Unobserved
    \/ \E s \in Mailboxes : RegReadIopRecv(s) /\ Unobserved
    \/ \E s \in Mailboxes : RegReadApRecv(s) /\ Unobserved
    \/ BottomHalf /\ Unobserved

SpecTotal == InitDispatch /\ [][NextTotal]_vars

(* C13: all operations are total.  For every interleaving of the guest's   *)
(* register writes (pushing a message, enabling or disabling a direction), *)
(* register reads (popping a message) and runs of the dispatch task, no    *)
(* operation fails or aborts: every dequeue the dispatch task performs     *)
(* after is_empty() returned false yields a message, so neither a run that *)
(* has happened nor a run from the current state processes a missing       *)
(* message.                                                                *)
C13_AllOperationsTotal ==
    /\ ~crashed
    /\ ~apple_rtbuddy_bh(World).crashed

---------------------------------------------------------------------------
(* SpecDeliver: a session whose AP enables the two directions and pushes   *)
(* messages; the main loop runs a scheduled bottom half eventually.  The   *)
(* IOP direction stays enabled once enabled and only the bottom half       *)
(* dequeues from the IOP inbox, so the inbox never underflows.             *)

MaxDeliver == 3

DeliverMessages ==
    {Ping(7, 9), EndpointMessage(EP_CRASHLOG),
     EndpointMessage(EP_USER_START + 1)}

NextDeliver ==
    \/ RegWriteIopCtrl("ap", 1) /\ Observe
    \/ RegWriteApCtrl("iop", 1) /\ Observe
    \/ \E msg \in DeliverMessages :
           Len(enq["iop"]) < MaxDeliver
           /\ RegWriteIopSend("ap", msg) /\ Observe
    \/ BottomHalf /\ Observe
    \/ RegReadApRecv("iop") /\ Observe
    \/ RegisterUserEp(1, Collaborator, Handler) /\ Observe

\* the step of BottomHalf as the flag of the bottom half shows it: the main
\* loop calls a scheduled bottom half, which clears the flag
BottomHalfRuns == ~crashed /\ bh = "scheduled" /\ bh' = "idle"

SpecDeliver == InitDispatch /\ [][NextDeliver]_vars /\ WF_bh(BottomHalfRuns)

\* an enqueue on the IOP inbox invokes no handler and takes no message; it
\* leaves the bottom half scheduled
EnqueueDefers ==
    \A msg \in DeliverMessages :
        LET w == apple_a7iop_send_iop(World, msg)
        IN  /\ w.calls = <<>>
            /\ Taken(w.ev) = <<>>
            /\ Happened(w.ev, "enq", "iop") =>
                   /\ w.bh = "scheduled"
                   /\ w.mbox["iop"].inbox = Append(mbox["iop"].inbox, msg)

\* a run of the bottom half takes the messages of the inbox in order until
\* the inbox is empty and routes each of them once
RunDrains ==
    LET w == apple_rtbuddy_bh(World)
    IN  /\ ~w.crashed
        /\ Payload(Taken(w.ev)) = Payload(mbox["iop"].inbox)
        /\ w.mbox["iop"].inbox = <<>>
        /\ w.calls = Invocations(endpoints, mbox["iop"].inbox)
        /\ w.bh = "idle"

\* the messages taken so far are the first of those enqueued, each once,
\* the others wait in the inbox with the bottom half scheduled, and what
\* the last entry point routed is what it took
RoutedOnce ==
    /\ Sent(enq["iop"]) = Sent(deq["iop"]) \o Sent(mbox["iop"].inbox)
    /\ mbox["iop"].inbox # <<>> => bh = "scheduled"
    /\ last.calls = Invocations(endpoints, Taken(last.ev))
    /\ Happened(last.ev, "enq", "iop") => last.calls = <<>>

(* C14: deferred delivery drains the inbox.  An enqueue on the IOP inbox   *)
(* does not itself invoke dispatch; a run of the dispatch task dequeues    *)
(* and routes the messages in enqueue order until the inbox is empty; and  *)
(* with the direction enabled, no underflow and the scheduled task         *)
(* eventually run, the n-th message enqueued is eventually the n-th        *)
(* message routed, every message exactly once.                             *)
C14_DeferredDelivery ==
    /\ [](EnqueueDefers /\ RunDrains /\ RoutedOnce)
    /\ \A n \in 1..MaxDeliver :
           (Len(enq["iop"]) >= n) ~> (Len(deq["iop"]) >= n)

\* a run of the bottom half has just taken, in order, the two messages
\* enqueued before it and has invoked the two handlers owed
C14_Witness ==
    /\ Len(Taken(last.ev)) = 2
    /\ Sent(deq["iop"]) = Sent(enq["iop"])
    /\ Len(enq["iop"]) = 2
    /\ Len(last.calls) = 2
    /\ bh = "idle"

---------------------------------------------------------------------------
(* Further claims checked under SpecDispatch.                              *)

\* an enqueue while the bottom half is pending leaves it pending, once
SchedulingCoalesced ==
    \A msg \in DispatchMessages :
        LET w == apple_a7iop_send_iop(World, msg)
        IN  /\ w.bh \in {"idle", "scheduled"}
            /\ bh = "scheduled" => w.bh = bh
            /\ w.calls = <<>>

\* one run delivers every message enqueued before it, in order, and leaves
\* nothing pending; a further run finds the inbox empty and delivers nothing
SingleRunDelivers ==
    LET w == apple_rtbuddy_bh(World)
        again == apple_rtbuddy_bh([w EXCEPT !.ev = <<>>, !.calls = <<>>])
    IN  /\ Payload(Taken(w.ev)) = Payload(mbox["iop"].inbox)
        /\ w.calls = Invocations(endpoints, mbox["iop"].inbox)
        /\ w.bh = "idle"
        /\ Taken(again.ev) = <<>>
        /\ again.calls = <<>>
        /\ again.bh = "idle"

(* C15: coalesced scheduling.  At most one dispatch task is pending: the   *)
(* bottom half is idle or scheduled, and scheduling it while it is pending *)
(* changes nothing.  Two messages enqueued back-to-back before the task    *)
(* runs are both delivered, in order, by a single run, and a run that      *)
(* finds the inbox empty delivers nothing.                                 *)
C15_CoalescedScheduling ==
    /\ bh \in {"idle", "scheduled"}
    /\ SchedulingCoalesced
    /\ SingleRunDelivers
    /\ (mbox["iop"].inbox = <<>> /\ ~mbox["iop"].underflow) =>
           apple_rtbuddy_bh(World).calls = <<>>

\* two messages were enqueued back-to-back while the bottom half was
\* pending, and its single run has just taken both
C15_Witness ==
    /\ Len(Taken(last.ev)) = 2
    /\ mbox["iop"].inbox = <<>>
    /\ bh = "idle"

(* C16: lock discipline.  Every read or write of a mailbox's internal      *)
(* state (queue, count, underflow, direction flags, interrupt mask), of    *)
(* either mailbox of a pair, is performed while the lock that guards that  *)
(* mailbox is held, and one lock guards both mailboxes of the pair: no     *)
(* entry point touches the queue or the underflow flag of a mailbox while  *)
(* holding another lock only.                                              *)
C16_LockDiscipline ==
    /\ \A a \in last.acc : a.lock = a.obj
    /\ \A a, b \in last.acc : a.lock = b.lock

\* what an entry point did, as its record shows: it dispatched a message to
\* the management handler, it invoked a start or wakeup hook, it reset the
\* session
MgmtDispatched(l) ==
    \E i \in 1..Len(l.calls) : l.calls[i].handler = MgmtHandler

StartOrWake(l) == l.hooks # <<>>

SessionReset(l) ==
    \E i \in 1..Len(l.trans) : l.trans[i].by = "apple_rtbuddy_reset"

Parked == ep0_status \in {"EP0_WAIT_HELLO", "EP0_WAIT_ROLLCALL"}

(* C17: no timeout or retry.  A step of a session in WaitHello or          *)
(* WaitRollcall that dispatches no inbound management message, requests no *)
(* start or wake and is no reset keeps the phase and the pending rollcall  *)
(* and sends nothing: no Hello or Rollcall is re-sent spontaneously, so    *)
(* the session stays parked as long as only such steps happen.             *)
C17_NoTimeoutOrRetry ==
    [][(Parked /\ ~MgmtDispatched(last') /\ ~StartOrWake(last')
           /\ ~SessionReset(last'))
       => (ep0_status' = ep0_status /\ rollcall' = rollcall
           /\ last'.tx = <<>>)]_vars

\* a session waiting for the rollcall acknowledgement whose bottom half has
\* just routed a message to the handler of a collaborator, and has sent
\* nothing
C17_Witness ==
    /\ ep0_status = "EP0_WAIT_ROLLCALL"
    /\ last.calls # <<>>
    /\ ~MgmtDispatched(last)
    /\ last.tx = <<>>
    /\ last.trans = <<>>

---------------------------------------------------------------------------
(* SpecEndpoint: a session whose collaborator registers user endpoints     *)
(* with a handler that replies, and sends to the AP on control and user    *)
(* endpoints, with ids inside and outside the ranges.                      *)

MaxReplies == 2

UserIds == {1, 2, 223, 224}
ControlIds == {2, 31, EP_USER_START}

NextEndpoint ==
    \/ \E s \in Mailboxes : MailboxReset(s) /\ Unobserved
    \/ \E ep \in {2, EP_USER_START + 1, EP_USER_START + 2} :
           InFlight < MaxReplies
           /\ RegWriteIopSend("ap", EndpointMessage(ep)) /\ Unobserved
    \/ BottomHalf /\ Unobserved
    \/ RegReadApRecv("ap") /\ Unobserved
    \/ \E l \in UserIds :
           RegisterUserEp(l, Collaborator, ReplyHandler) /\ Unobserved
    \/ UnregisterUserEp(1) /\ Unobserved
    \/ \E l \in UserIds :
           InFlight < MaxReplies
           /\ SendUserMsg(l, sram_addr) /\ Unobserved
    \/ \E e \in ControlIds :
           InFlight < MaxReplies
           /\ SendControlMsg(e, sram_addr) /\ Unobserved

SpecEndpoint == InitDispatch /\ [][NextEndpoint]_vars

\* a send of the session layer with an id in range hands the AP channel one
\* message with the given endpoint id and payload, which is appended to
\* the AP inbox when the direction is enabled; with an id out of range the
\* assertion ends the process and nothing is sent
SendsTo(w, inrange, ep, data) ==
    IF inrange
    THEN /\ ~w.crashed
         /\ w.tx = <<Message(ep, data, 0)>>
         /\ mbox["iop"].ap_dir_en =>
                w.mbox["ap"].inbox
                    = Append(mbox["ap"].inbox, Message(ep, data, 0))
    ELSE /\ w.crashed
         /\ w.tx = <<>>
         /\ w.mbox = mbox

\* the handler registered for the user endpoint l is invoked with l for the
\* messages on endpoint l + 32, and answers on that endpoint; the messages
\* on the other endpoints are routed as before the registration
RegisteredFor(l) ==
    LET w == apple_rtbuddy_register_user_ep(World, l, Collaborator,
                                            ReplyHandler)
    IN  IF l < 224
        THEN \A msg \in ProbeMessages :
                 LET d == Dispatch([w EXCEPT !.ret = VOID], msg)
                 IN  IF msg.endpoint = l + 32
                     THEN /\ d.calls = <<[handler |-> ReplyHandler,
                                          opaque |-> Collaborator,
                                          ep |-> l, msg |-> msg.msg]>>
                          /\ d.tx = <<Message(msg.endpoint, sram_addr, 0)>>
                     ELSE d.calls = Dispatch(World, msg).calls
        ELSE w.crashed /\ w.endpoints = endpoints

(* C18: user and control id mapping.  send_user(l, payload) with l < 224   *)
(* sends toward the AP a message with endpoint l + 32 and that payload,    *)
(* send_control(e, payload) with e < 32 one with endpoint e; a handler     *)
(* registered with register_user_ep(l) is invoked with the logical id l    *)
(* exactly for the inbound messages on endpoint l + 32, and the logical id *)
(* it is given, passed to send_user, replies on that same endpoint.  Ids   *)
(* outside the ranges are rejected by assertion.                           *)
C18_IdMapping ==
    ~crashed =>
        /\ \A l \in UserIds :
               SendsTo(apple_rtbuddy_send_user_msg(World, l, sram_addr),
                       l < 224, l + 32, sram_addr)
        /\ \A e \in ControlIds :
               SendsTo(apple_rtbuddy_send_control_msg(World, e, sram_addr),
                       e < 32, e, sram_addr)
        /\ \A l \in UserIds : RegisteredFor(l)

\* the bottom half has just routed a message on endpoint 34 to the replying
\* handler registered for the user endpoint 2, with logical id 2, and the
\* reply has been queued for the AP on endpoint 34
C18_Witness ==
    /\ last.calls = <<[handler |-> ReplyHandler, opaque |-> Collaborator,
                       ep |-> 2, msg |-> EndpointMessage(34).msg]>>
    /\ last.tx = <<Message(EP_USER_START + 2, sram_addr, 0)>>
    /\ mbox["ap"].inbox # <<>>
    /\ mbox["ap"].inbox[Len(mbox["ap"].inbox)]
           = Message(EP_USER_START + 2, sram_addr, 0)

---------------------------------------------------------------------------
(* SpecRegistry: a session whose collaborator registers and unregisters    *)
(* control and user endpoints, the two of apple_rtbuddy_init included,     *)
(* while the AP sends messages to them.                                    *)

MaxRouted == 2

RegistryControlIds == {EP_MANAGEMENT, EP_CRASHLOG, 2}

RegistryMessages ==
    {Ping(7, 9), EndpointMessage(EP_CRASHLOG), EndpointMessage(2),
     EndpointMessage(EP_USER_START + 1)}

NextRegistry ==
    \/ \E s \in Mailboxes : MailboxReset(s) /\ Unobserved
    \/ \E msg \in RegistryMessages :
           InFlight < MaxRouted
           /\ RegWriteIopSend("ap", msg) /\ Unobserved
    \/ BottomHalf /\ Unobserved
    \/ RegReadApRecv("ap") /\ Unobserved
    \/ \E ep \in RegistryControlIds :
           RegisterControlEp(ep, Collaborator, Handler) /\ Unobserved
    \/ \E ep \in RegistryControlIds : UnregisterControlEp(ep) /\ Unobserved
    \/ RegisterUserEp(1, Collaborator, Handler) /\ Unobserved
    \/ UnregisterUserEp(1) /\ Unobserved

SpecRegistry == InitDispatch /\ [][NextRegistry]_vars

(* C19: endpoints 0 (management) and 1 (crash log) are present in the      *)
(* endpoint registry in every reachable state after the construction of    *)
(* the session, for any sequence of register and unregister calls.         *)
C19_BuiltinEndpoints ==
    /\ EP_MANAGEMENT \in DOMAIN endpoints
    /\ EP_CRASHLOG \in DOMAIN endpoints

---------------------------------------------------------------------------
(* SpecMigrate: the mailbox pair saved and restored between the register   *)
(* accesses of the processors.  apple_a7iop_mailbox_class_init gives the   *)
(* device class a reset and a description and no description of its state, *)
(* so the saved image holds none of the fields of AppleA7IOPMailbox; a     *)
(* restore loads the image into the devices of a new machine, constructed  *)
(* and reset.                                                              *)

MaxSaved == 2

\* the fields of AppleA7IOPMailbox the device class declares for saving
PersistedFields == {}

\* the image of the two mailboxes
Save(w) ==
    [s \in Mailboxes |-> [f \in PersistedFields |-> w.mbox[s][f]]]

\* the mailboxes of a new machine, reset, with the fields of the image
Restore(w, image) ==
    LET new == [w EXCEPT !.mbox = [s \in Mailboxes |-> NewMailbox]]
        fresh == apple_a7iop_mailbox_reset(
                     apple_a7iop_mailbox_reset(new, "iop"), "ap")
    IN  [fresh EXCEPT !.mbox =
            [s \in Mailboxes |->
                [f \in DOMAIN NewMailbox |->
                    IF f \in PersistedFields THEN image[s][f]
                    ELSE fresh.mbox[s][f]]]]

SaveRestore ==
    /\ ~crashed
    /\ Commit(Restore(World, Save(World)))

NextMigrate ==
    \/ \E s \in Mailboxes, p \in Payloads :
           Len(mbox["iop"].inbox) < MaxSaved
           /\ RegWriteIopSend(s, DataMessage(p)) /\ Unobserved
    \/ \E s \in Mailboxes, p \in Payloads :
           Len(mbox["ap"].inbox) < MaxSaved
           /\ RegWriteApSend(s, DataMessage(p)) /\ Unobserved
    \/ \E s \in Mailboxes : RegReadIopRecv(s) /\ Unobserved
    \/ \E s \in Mailboxes : RegReadApRecv(s) /\ Unobserved
    \/ \E s \in Mailboxes : RegReadIopCtrl(s) /\ Unobserved
    \/ \E s \in Mailboxes : RegReadApCtrl(s) /\ Unobserved
    \/ \E s \in Mailboxes, v \in CtrlValues :
           RegWriteIopCtrl(s, v) /\ Unobserved
    \/ \E s \in Mailboxes : MailboxReset(s) /\ Unobserved
    \/ SaveRestore /\ Unobserved

SpecMigrate == InitMailbox /\ [][NextMigrate]_vars

\* what the status reads of the two inboxes report of their queues
QueueStatus(w) ==
    [s \in Mailboxes |-> StatusFields(apple_a7iop_mailbox_ctrl(w, s))]

(* C20: save/restore round trip.  Saving the state and restoring it yields *)
(* the same mailbox status reads as a run that never saved; taken for the  *)
(* interleaving with no enqueue or dequeue after the restore: from every   *)
(* reachable state, the status reads right after a save and restore report *)
(* the same full, empty, underflow and count as the status reads of the    *)
(* state that was saved.                                                   *)
C20_SaveRestoreRoundTrip ==
    QueueStatus(Restore(World, Save(World))) = QueueStatus(World)


---------------------------------------------------------------------------
(* Claims about the count a dequeue stamps, checked under SpecStatus.      *)

\* the count field (bits 20-23) of the flags of a message
FlagsCount(msg) == (msg.flags \div Pow2(CTRL_COUNT_SHIFT)) % 16

\* what a successful dequeue of inbox s returns and leaves, as claimed
StampedSaturated(s) ==
    LET w == apple_a7iop_mailbox_recv(World, s)
    IN  /\ w.ret # NULL
        /\ FlagsCount(w.ret) = Least(mbox[s].count, 15)
        /\ w.mbox[s].count = mbox[s].count - 1

(* C21: dequeue stamps the count.  Whenever an inbox is not underflowed    *)
(* and holds a message, a dequeue writes min(count, 15) of the count       *)
(* before the removal into the count field of the flags of the message it  *)
(* returns (15 for a queue of 16 or more, never a wrapped value), then     *)
(* decrements count by one.                                                *)
C21_DequeueStampsCount ==
    \A s \in Mailboxes :
        (~mbox[s].underflow /\ mbox[s].inbox # <<>>) => StampedSaturated(s)


---------------------------------------------------------------------------
(* SpecPower: a channel that a session owns, or that none owns, whose AP   *)
(* writes the processor status and control registers and sends management *)
(* messages of every type.                                                 *)

\* messages in flight (both inboxes together) in the power specification
MaxPower == 1

SetApPstate(state, f32) == MgmtMessage(state, f32, MSG_TYPE_SET_AP_PSTATE)
EpStart == MgmtMessage(0, 0, MSG_TYPE_EPSTART)

\* the values the AP writes to REG_CPU_STATUS
StatusValues == {CPU_STATUS_IDLE, 7}

PowerMessages ==
    {RecvHello, RollcallAckMsg, EpStart, SetApPstate(3, 1),
     SetIopPstate(PSTATE_ON), SetIopPstate(PSTATE_WAIT_VR),
     SetIopPstate(PSTATE_SLPNOMEM), SetIopPstate(PSTATE_PWRGATE)}

InitPower == InitSession \/ InitMailbox

NextPower ==
    \/ \E s \in Mailboxes : MailboxReset(s) /\ Unobserved
    \/ bh # "none" /\ DeviceReset /\ Unobserved
    \/ \E v \in StatusValues : RegWriteCpuStatus(v) /\ Unobserved
    \/ \E v \in {0, CPU_CTRL_RUN} :
           InFlight < MaxPower /\ RegWriteCpuCtrl(v) /\ Unobserved
    \/ \E msg \in PowerMessages :
           InFlight < MaxPower
           /\ RegWriteIopSend("ap", msg) /\ Unobserved
    \/ BottomHalf /\ Unobserved
    \/ RegReadApRecv("ap") /\ Unobserved

SpecPower == InitPower /\ [][NextPower]_vars

---------------------------------------------------------------------------
(* Claims checked under SpecPower.                                         *)

\* the Hello of apple_rtbuddy_mgmt_send_hello
Hello ==
    Message(EP_MANAGEMENT,
            Raw(protocol_version + 65536 * protocol_version, 0, 0,
                MSG_SEND_HELLO, 0), 0)

\* a processor status with the idle bit (bit 0) cleared
IdleCleared(status) == (status \div 2) * 2

\* the number of Hellos among the messages msgs
RECURSIVE Hellos(_)
Hellos(msgs) ==
    IF msgs = <<>> THEN 0
    ELSE (IF Head(msgs) = Hello THEN 1 ELSE 0) + Hellos(Tail(msgs))

(* C22: coprocessor start.  In every reachable state of a session, in      *)
(* whatever phase, a run of the start or of the wake hook clears the idle  *)
(* bit of the processor status and preserves its other bits, sends exactly *)
(* one Hello with major = minor = protocol_version on endpoint 0 and makes *)
(* the phase WaitHello (the AP inbox receives the Hello when the direction *)
(* toward the AP is enabled); and every entry point sent as many Hellos as *)
(* it ran hooks.                                                           *)
C22_CoprocessorStart ==
    /\ bh # "none" =>
           \A wake \in BOOLEAN :
               LET w == apple_a7iop_cpu_start(World, wake)
               IN  /\ w.hooks = <<IF wake THEN "wakeup" ELSE "start">>
                   /\ w.cpu_status = IdleCleared(cpu_status)
                   /\ w.cpu_ctrl = cpu_ctrl
                   /\ w.tx = <<Hello>>
                   /\ w.ep0_status = "EP0_WAIT_HELLO"
                   /\ w.mbox["ap"].inbox =
                          IF mbox["iop"].ap_dir_en
                          THEN Append(mbox["ap"].inbox, Hello)
                          ELSE mbox["ap"].inbox
    /\ Hellos(last.tx) = Len(last.hooks)

\* the bottom half has just handled a SetIopPstate "on" of an idle session
\* whose status was 7: the wake hook ran
C22_Witness ==
    /\ last.hooks = <<"wakeup">>
    /\ last.tx = <<Hello>>
    /\ cpu_status = 6
    /\ ep0_status = "EP0_WAIT_HELLO"


SetApPstateAck(state) ==
    Message(EP_MANAGEMENT, Raw(state, 0, 0, MSG_TYPE_SET_AP_PSTATE_ACK, 0), 0)

\* the outcome of the entry point that produced w: the state it left and
\* what it sent, ran and assigned
Outcome(w) ==
    [mbox |-> w.mbox, bh |-> w.bh, cpu_status |-> w.cpu_status,
     cpu_ctrl |-> w.cpu_ctrl, ep0_status |-> w.ep0_status,
     rollcall |-> w.rollcall, endpoints |-> w.endpoints,
     crashed |-> w.crashed, hs |-> w.hs, tx |-> w.tx, hooks |-> w.hooks,
     trans |-> w.trans, log |-> w.log]

\* the power states a SetIopPstate may name in bits 0-11, with bits above
PowerStates ==
    {PSTATE_SLPNOMEM, PSTATE_WAIT_VR, PSTATE_PWRGATE, PSTATE_ON, 3,
     4096 + PSTATE_SLPNOMEM, 4096 + PSTATE_ON}

(* C23: idle power-state requests.  In phase Idle the handling of a        *)
(* SetIopPstate whose state is "on" or "wait-for-voltage-rail" is          *)
(* request_start(wake = true) and sends no acknowledgement itself (the     *)
(* Hello of the wake is the only message); one whose state is "sleep, no   *)
(* memory" sends one SetApPstateAck carrying that state, sets the          *)
(* processor status to idle and leaves the phase Idle; any other state     *)
(* changes nothing.  In WaitHello and WaitRollcall a SetIopPstate changes  *)
(* nothing and sends nothing.                                              *)
C23_IdlePowerRequests ==
    bh # "none" =>
    \A state \in PowerStates, f32 \in {0, 1} :
        LET msg == Raw(state, f32, 0, MSG_TYPE_SET_IOP_PSTATE, 0)
            w == apple_rtbuddy_handle_mgmt_msg(World, EP_MANAGEMENT, msg)
        IN  IF ep0_status # "EP0_IDLE" THEN Outcome(w) = Outcome(World)
            ELSE IF state % 4096 \in {PSTATE_ON, PSTATE_WAIT_VR}
            THEN /\ Outcome(w) = Outcome(apple_a7iop_cpu_start(World, TRUE))
                 /\ w.hooks = <<"wakeup">>
                 /\ w.tx = <<Hello>>
            ELSE IF state % 4096 = PSTATE_SLPNOMEM
            THEN /\ w.tx = <<SetApPstateAck(PSTATE_SLPNOMEM)>>
                 /\ w.cpu_status = CPU_STATUS_IDLE
                 /\ w.ep0_status = "EP0_IDLE"
                 /\ w.trans = <<>>
                 /\ w.hooks = <<>>
                 /\ w.rollcall = rollcall
            ELSE Outcome(w) = Outcome(World)

\* the bottom half has just handled a sleep request of an idle session
\* whose processor was running: acknowledged and parked
C23_Witness ==
    /\ last.calls = <<[handler |-> MgmtHandler, opaque |-> Self,
                       ep |-> EP_MANAGEMENT,
                       msg |-> SetIopPstate(PSTATE_SLPNOMEM).msg]>>
    /\ last.tx = <<SetApPstateAck(PSTATE_SLPNOMEM)>>
    /\ cpu_status = CPU_STATUS_IDLE
    /\ cpu_ctrl = CPU_CTRL_RUN
    /\ ep0_status = "EP0_IDLE"


\* control words with the run bit (bit 4) set and clear
ControlWords == {0, 1, CPU_CTRL_RUN, CPU_CTRL_RUN + 1}

RunBit(v) == (v \div CPU_CTRL_RUN) % 2 = 1

(* C24: run-control side effect.  In every reachable state, of whatever    *)
(* phase and control word, set_control(v) stores v as the control word and *)
(* invokes the start callback (wake = false) exactly when the run bit of v *)
(* is set; a write with the run bit clear changes nothing but the control  *)
(* word; and with no callback registered request_start changes no state    *)
(* and a control write changes nothing but the control word.               *)
C24_RunControl ==
    /\ \A v \in ControlWords :
           LET w == apple_a7iop_set_cpu_ctrl(World, v)
               stored == [World EXCEPT !.cpu_ctrl = v]
           IN  /\ w.cpu_ctrl = v
               /\ IF RunBit(v) /\ bh # "none"
                  THEN /\ Outcome(w) = Outcome(apple_rtbuddy_iop_start(stored))
                       /\ w.hooks = <<"start">>
                  ELSE Outcome(w) = Outcome(stored)
    /\ bh = "none" =>
           \A wake \in BOOLEAN :
               Outcome(apple_a7iop_cpu_start(World, wake)) = Outcome(World)

\* the run bit has just been written again during the rollcall of a
\* session: the start callback ran
C24_Witness ==
    /\ cpu_ctrl = CPU_CTRL_RUN
    /\ last.hooks = <<"start">>
    /\ last.trans = <<[from |-> "EP0_WAIT_ROLLCALL", to |-> "EP0_WAIT_HELLO",
                       by |-> "apple_rtbuddy_mgmt_send_hello"]>>


---------------------------------------------------------------------------
(* Claims about the reset of a mailbox, checked under SpecGate.            *)

\* mailbox m as a reset leaves it
ResetFields(m) ==
    /\ m.count = 0
    /\ m.inbox = <<>>
    /\ m.iop_dir_en
    /\ m.ap_dir_en
    /\ ~m.underflow

JustReset(s) == last.ev = <<[kind |-> "reset", box |-> s, msg |-> NULL]>>

(* C25: mailbox reset postcondition.  From every reachable state of a      *)
(* mailbox, underflowed or not, with directions disabled or not, with any  *)
(* queue, reset() leaves count = 0, an empty queue, both direction-enable  *)
(* flags true and underflow false, and the interrupt lines of the mailbox  *)
(* are the levels recomputed from the state it leaves.                     *)
C25_ResetPostcondition ==
    /\ \A s \in Mailboxes :
           LET w == apple_a7iop_mailbox_reset(World, s)
           IN  /\ ResetFields(w.mbox[s])
               /\ s \in w.upd
               /\ w.mbox[s].irqs = IrqLevels(w, s)
    /\ \A s \in Mailboxes :
           JustReset(s) =>
               ResetFields(mbox[s]) /\ mbox[s].irqs = IrqLevels(World, s)

\* the IOP inbox has just been reset while the AP inbox is underflowed and
\* holds a message; the lines of the "ap" object still show the IOP inbox
\* as it was before its reset, not empty
C25_Witness ==
    /\ JustReset("iop")
    /\ mbox["ap"].underflow
    /\ mbox["ap"].inbox # <<>>
    /\ mbox["ap"].irqs.iop_nonempty
    /\ mbox["iop"].irqs.ap_nonempty
    /\ mbox["iop"].irqs.iop_empty


\* a dequeue that found "nothing available" and changed no mailbox field
\* and no interrupt line of either object
NothingAvailable(w) == w.ret = NULL /\ w.mbox = mbox

(* C26: dequeue under underflow has no side effects.  When the underflow   *)
(* flag of an inbox is already set, a dequeue on it through either         *)
(* register block returns "nothing available" and leaves the queue         *)
(* contents, count, underflow flag, direction flags, interrupt mask and    *)
(* interrupt-line levels unchanged, so that messages enqueued while        *)
(* underflowed stay queued until reset.                                    *)
C26_UnderflowedDequeueInert ==
    \A s \in Mailboxes :
        /\ mbox[iop_mailbox(s)].underflow =>
               NothingAvailable(apple_a7iop_mailbox_recv_iop(World, s))
        /\ mbox[ap_mailbox(s)].underflow =>
               NothingAvailable(apple_a7iop_mailbox_recv_ap(World, s))


---------------------------------------------------------------------------
(* Claims about the management messages the phases do not distinguish,    *)
(* checked under SpecPower.                                                *)

\* the payloads of the SetApPstate messages handled: the state in bits
\* 0-31, and bits 32-47, 48-51 and 56-63 clear or set
ApPstatePayloads ==
    {Raw(state, f32, f48, MSG_TYPE_SET_AP_PSTATE, hi) :
        state \in {0, 3, Pow2(16) + 3}, f32 \in {0, 1}, f48 \in {0, 5},
        hi \in {0, 1}}

\* the handling of payload msg sends the one reply and nothing else changes
RepliesOnce(msg, reply) ==
    LET w == apple_rtbuddy_handle_mgmt_msg(World, EP_MANAGEMENT, msg)
        sent == Message(EP_MANAGEMENT, reply, 0)
    IN  /\ w.tx = <<sent>>
        /\ w.ep0_status = ep0_status
        /\ w.trans = <<>>
        /\ w.rollcall = rollcall
        /\ w.cpu_status = cpu_status
        /\ w.mbox["ap"].inbox =
               IF mbox["iop"].ap_dir_en THEN Append(mbox["ap"].inbox, sent)
               ELSE mbox["ap"].inbox

(* C27, as amended: SetApPstate passthrough.  In every session phase the   *)
(* handling of a management SetApPstate message sends exactly one reply,   *)
(* of the same type and carrying the same 32-bit state (payload bits 0-31) *)
(* with every other payload bit zero, which equals the received message    *)
(* when its bits 32-51 and 56-63 are zero, and leaves the session phase    *)
(* unchanged.                                                              *)
C27_SetApPstatePassthrough ==
    bh # "none" =>
        \A msg \in ApPstatePayloads :
            RepliesOnce(msg, Raw(msg.field_0, 0, 0, MSG_TYPE_SET_AP_PSTATE, 0))

(* C27, as claimed: in every session phase the handling of a management    *)
(* SetApPstate message sends exactly one reply that equals the received    *)
(* message unchanged, same type and same payload bits, and leaves the      *)
(* session phase unchanged.                                                *)
C27_SetApPstateUnchanged ==
    bh # "none" => \A msg \in ApPstatePayloads : RepliesOnce(msg, msg)

\* the bottom half has just handled, during the rollcall, a SetApPstate
\* with state 3 and bit 32 set: the reply carries state 3 alone
C27_Witness ==
    /\ ep0_status = "EP0_WAIT_ROLLCALL"
    /\ last.calls = <<[handler |-> MgmtHandler, opaque |-> Self,
                       ep |-> EP_MANAGEMENT, msg |-> SetApPstate(3, 1).msg]>>
    /\ last.tx = <<SetApPstate(3, 0)>>
    /\ last.trans = <<>>


\* the message types a phase handles: Ping and SetApPstate in every phase,
\* and one more type per phase
HandledIn(phase, type) ==
    \/ type \in {MSG_TYPE_PING, MSG_TYPE_SET_AP_PSTATE}
    \/ phase = "EP0_IDLE" /\ type = MSG_TYPE_SET_IOP_PSTATE
    \/ phase = "EP0_WAIT_HELLO" /\ type = MSG_RECV_HELLO
    \/ phase = "EP0_WAIT_ROLLCALL" /\ type = MSG_TYPE_ROLLCALL

(* C28: unhandled management messages are inert.  In every reachable      *)
(* state of a session the handling of a management message whose type the  *)
(* current phase does not handle (an EpStart in WaitRollcall, a RecvHello  *)
(* or Rollcall in Idle, a Rollcall in WaitHello, a RecvHello in            *)
(* WaitRollcall, ...), whatever its payload, changes neither the phase nor *)
(* the pending-rollcall queue, nor anything else, and sends nothing.       *)
C28_UnhandledInert ==
    bh # "none" =>
        \A type \in 0..15, f0 \in {0, 2}, f32 \in {0, 1} :
            ~HandledIn(ep0_status, type) =>
                LET w == apple_rtbuddy_handle_mgmt_msg(
                             World, EP_MANAGEMENT, Raw(f0, f32, 0, type, 0))
                IN  /\ w.ep0_status = ep0_status
                    /\ w.rollcall = rollcall
                    /\ w.tx = <<>>
                    /\ Outcome(w) = Outcome(World)

\* the bottom half has just handled an EpStart during the rollcall, with
\* an entry pending: nothing sent, the entry still pending
C28_Witness ==
    /\ ep0_status = "EP0_WAIT_ROLLCALL"
    /\ rollcall # <<>>
    /\ last.calls = <<[handler |-> MgmtHandler, opaque |-> Self,
                       ep |-> EP_MANAGEMENT, msg |-> EpStart.msg]>>
    /\ last.tx = <<>>
    /\ last.trans = <<>>


---------------------------------------------------------------------------
(* SpecMask: the processors set and clear bits of the interrupt masks of   *)
(* both register blocks while the IOP inbox is filled, drained,            *)
(* underflowed and reset.                                                  *)

\* messages the IOP inbox may hold in the mask specification
MaxMasked == 1

NextMask ==
    \/ \E s \in Mailboxes :
           Len(mbox["iop"].inbox) < MaxMasked
           /\ RegWriteIopSend(s, DataMessage(1)) /\ Unobserved
    \/ \E s \in Mailboxes : RegReadIopRecv(s) /\ Unobserved
    \/ \E s \in Mailboxes, v \in MaskValues :
           RegWriteIntMaskSet(s, v) /\ Unobserved
    \/ \E s \in Mailboxes, v \in MaskValues :
           RegWriteIntMaskClr(s, v) /\ Unobserved
    \/ \E s \in Mailboxes : MailboxReset(s) /\ Unobserved

SpecMask == InitMailbox /\ [][NextMask]_vars

---------------------------------------------------------------------------
(* Claims about the interrupt mask, checked under SpecMask.                *)

\* the arguments of the mask calls: no bit, one condition, two conditions,
\* and a condition with a bit that names none
MaskArguments == {0, IOP_EMPTY, IOP_NONEMPTY + AP_NONEMPTY, AP_EMPTY + 2}

\* the bits of the four conditions, and bit 1, which names none
MaskBits == {IOP_EMPTY, 2, IOP_NONEMPTY, AP_EMPTY, AP_NONEMPTY}

\* the bits of MaskBits that are set in v
BitsOf(v) == {b \in MaskBits : Masked(v, b)}

\* w differs from the current state in the mask and the lines of s only,
\* and the lines of s are recomputed from w
OnlyMaskAndLines(w, s) ==
    /\ w.mbox = [mbox EXCEPT ![s].int_mask = w.mbox[s].int_mask,
                             ![s].irqs = IrqLevels(w, s)]
    /\ s \in w.upd

(* C29: interrupt mask algebra.  In every reachable state set_mask(a)      *)
(* makes interrupt_mask = old | a and clear_mask(r) makes interrupt_mask = *)
(* old & ~r, each followed by a recomputation of the interrupt lines of    *)
(* the mailbox; neither changes the queue, count, underflow or direction   *)
(* flags, and applying the same call twice equals applying it once.        *)
C29_MaskAlgebra ==
    \A s \in Mailboxes, v \in MaskArguments :
        LET set == apple_a7iop_mailbox_set_int_mask(World, s, v)
            clr == apple_a7iop_mailbox_clear_int_mask(World, s, v)
        IN  /\ BitsOf(set.mbox[s].int_mask)
                   = BitsOf(mbox[s].int_mask) \cup BitsOf(v)
            /\ BitsOf(clr.mbox[s].int_mask)
                   = BitsOf(mbox[s].int_mask) \ BitsOf(v)
            /\ set.mbox[s].int_mask < 2 * AP_NONEMPTY
            /\ clr.mbox[s].int_mask < 2 * AP_NONEMPTY
            /\ OnlyMaskAndLines(set, s)
            /\ OnlyMaskAndLines(clr, s)
            /\ apple_a7iop_mailbox_set_int_mask(set, s, v).mbox = set.mbox
            /\ apple_a7iop_mailbox_clear_int_mask(clr, s, v).mbox = clr.mbox

\* the mask of the "iop" object has just been cleared to zero while its
\* inbox holds a message, and the mask of the "ap" object has had two sets
\* of bits set: the nonempty line of the "iop" object is up again
C29_Witness ==
    /\ last.ret = VOID
    /\ last.ev = <<>>
    /\ last.upd = {"iop"}
    /\ mbox["iop"].int_mask = 0
    /\ mbox["ap"].int_mask = IOP_NONEMPTY + IOP_EMPTY + AP_EMPTY
    /\ mbox["iop"].inbox # <<>>
    /\ mbox["iop"].irqs.iop_nonempty

---------------------------------------------------------------------------
(* SpecSubword: the AP writes the words of the IOP send register of its    *)
(* block in 4-byte and 8-byte accesses, the IOP reads the words of the IOP *)
(* receive register of its block, and either object is reset.  Both blocks *)
(* are of version 2 or both of version 4.                                  *)

\* messages the IOP inbox may hold in the sub-word specification
MaxLatched == 1

\* apple_a7iop_mailbox_new with version APPLE_A7IOP_V2 or APPLE_A7IOP_V4
InitSubword ==
    /\ \E version \in {"v2", "v4"} :
           mbox = [s \in Mailboxes |-> [NewMailbox EXCEPT !.mmio = version]]
    /\ bh = "none"
    /\ cpu_status = 0
    /\ cpu_ctrl = 0
    /\ ep0_status = "EP0_IDLE"
    /\ rollcall = <<>>
    /\ endpoints = <<>>
    /\ crashed = FALSE
    /\ last = NoLast
    /\ hs = NoHandshake
    /\ enq = NoHistory
    /\ deq = NoHistory
    /\ threads = NoThreads

NextSubword ==
    \/ \E a \in Accesses(4) :
           Len(mbox["iop"].inbox) < MaxLatched
           /\ RegWriteSend("ap", "iop", a[1], a[2], <<1, 1>>) /\ Unobserved
    \/ \E a \in Accesses(4) :
           RegReadRecv("iop", "iop", a[1], a[2]) /\ Unobserved
    \/ \E s \in Mailboxes : MailboxReset(s) /\ Unobserved

SpecSubword == InitSubword /\ [][NextSubword]_vars

---------------------------------------------------------------------------
(* Claims about sub-word register access, checked under SpecSubword.       *)

\* the sides whose send and receive registers a block has
Sides == {"iop", "ap"}

\* the inbox object a side's registers of block s enqueue to and dequeue from
InboxOf(s, side) == IF side = "iop" THEN iop_mailbox(s) ELSE ap_mailbox(s)

\* the direction enable of a side in block s
Enabled(s, side) ==
    IF side = "iop" THEN mbox[s].iop_dir_en ELSE mbox[s].ap_dir_en

\* values written that no latch holds yet
SubwordData == {<<2, 3>>}

\* the access ends on the last word of a register of nwords words
EndsOnLastWord(nwords, a) == a[1] + (a[2] \div 4) = nwords

\* the mailbox objects without their interrupt lines
Unlined(m) == [t \in Mailboxes |-> [m[t] EXCEPT !.irqs = NoIrqs]]

(* C30: a write of a word of a send register latches its bytes; it hands a *)
(* message to the send function exactly when it ends on the last word of   *)
(* the register, the message being the contents of all send words after    *)
(* the write, and that message is appended to the inbox when the direction *)
(* is enabled; any other write changes the latch only.  A read of the      *)
(* first word of a receive register performs one dequeue, exactly as one   *)
(* call of the receive function does, and latches the message it returned  *)
(* or all zero when it returned none; a read of another receive word       *)
(* changes nothing; every read returns the latched words it covers.        *)
C30_SubwordAccess ==
    \A s \in Mailboxes, side \in Sides :
        LET nwords == RegWords(World, s)
            tgt == InboxOf(s, side)
        IN  /\ \A a \in Accesses(nwords), data \in SubwordData :
                   LET w == MmioWrite(World, s, side, a[1], a[2], data)
                       reg == Latch(mbox[s][SendReg(side)], a[1], a[2], data)
                       latched == [mbox EXCEPT ![s][SendReg(side)] = reg]
                       msg == MessageOf(reg)
                   IN  /\ WordsOf(msg) = reg
                       /\ w.mbox[s][SendReg(side)] = reg
                       /\ IF EndsOnLastWord(nwords, a)
                          THEN IF Enabled(s, side)
                               THEN /\ w.ev = <<[kind |-> "enq", box |-> tgt,
                                                 msg |-> msg]>>
                                    /\ w.log = <<>>
                                    /\ Unlined(w.mbox) =
                                           Unlined([latched EXCEPT
                                               ![tgt].inbox = Append(@, msg),
                                               ![tgt].count = @ + 1])
                               ELSE /\ w.ev = <<>>
                                    /\ Len(w.log) = 1
                                    /\ w.mbox = latched
                          ELSE /\ w.ev = <<>>
                               /\ w.log = <<>>
                               /\ w.mbox = latched
                               /\ w.bh = bh
            /\ \A a \in Accesses(nwords) :
                   LET w == MmioRead(World, s, side, a[1], a[2])
                       old == mbox[s][RecvReg(side)]
                       got == IF side = "iop"
                              THEN apple_a7iop_mailbox_recv_iop(World, s)
                              ELSE apple_a7iop_mailbox_recv_ap(World, s)
                       available == /\ Enabled(s, side)
                                    /\ ~mbox[tgt].underflow
                                    /\ mbox[tgt].inbox # <<>>
                       head == StampFlags(Head(mbox[tgt].inbox),
                                          mbox[tgt].count)
                   IN  IF a[1] = 0
                       THEN /\ [w.mbox EXCEPT ![s][RecvReg(side)] = old]
                                   = got.mbox
                            /\ w.ev = got.ev
                            /\ w.log = got.log
                            /\ IF available
                               THEN /\ w.ev = <<[kind |-> "deq", box |-> tgt,
                                                 msg |-> head]>>
                                    /\ w.mbox[tgt].inbox
                                           = Tail(mbox[tgt].inbox)
                                    /\ w.mbox[s][RecvReg(side)]
                                           = WordsOf(head)
                               ELSE /\ w.ev = <<>>
                                    /\ w.mbox[tgt].inbox = mbox[tgt].inbox
                                    /\ w.mbox[s][RecvReg(side)] = ZeroReg
                            /\ w.ret.data = Latched(w.mbox[s][RecvReg(side)],
                                                    0, a[2])
                       ELSE /\ w.mbox = mbox
                            /\ w.ev = <<>>
                            /\ w.log = <<>>
                            /\ w.ret.data = Latched(old, a[1], a[2])

\* in blocks of version 4 the AP wrote the first word and then the last two
\* words of its IOP send register, which pushed the message of all four
\* words; the IOP read the first word of its IOP receive register, which
\* dequeued and latched that message with the count stamped, and has just
\* read the last two words in one access, which dequeued nothing
C30_Witness ==
    /\ mbox["ap"].mmio = "v4"
    /\ mbox["ap"].iop_send_reg = <<1, 0, 1, 1>>
    /\ mbox["iop"].iop_recv_reg = <<1, 0, 1, 1 + CTRL_COUNT(1)>>
    /\ mbox["iop"].inbox = <<>>
    /\ ~mbox["iop"].underflow
    /\ last.ret = [data |-> <<1, 1 + CTRL_COUNT(1)>>]
    /\ last.ev = <<>>
    /\ last.upd = {}

---------------------------------------------------------------------------
(* Claims about a receive on a disabled direction, checked under SpecGate. *)

\* what a refused receive leaves: "nothing available" returned, no mailbox
\* field and no interrupt line changed, nothing dequeued, no bottom half
\* scheduled, one diagnostic
GatedRecv(w, fn, s) ==
    /\ w.ret = NULL
    /\ w.mbox = mbox
    /\ w.bh = bh
    /\ w.ev = <<>>
    /\ w.upd = {}
    /\ w.log = <<<<fn, s, "direction not enabled">>>>

(* C35: a gated receive does not underflow.  Whenever the direction-enable *)
(* flag a receive consults is false, the receive, through either object or *)
(* through the channel, returns "nothing available" and leaves the queue,  *)
(* the count and the underflow flag of both inboxes unchanged, also when   *)
(* the inbox is empty and not underflowed.                                 *)
C35_GatedReceive ==
    /\ \A s \in Mailboxes :
           /\ ~mbox[s].iop_dir_en =>
                  GatedRecv(apple_a7iop_mailbox_recv_iop(World, s),
                            "apple_a7iop_mailbox_recv_iop", s)
           /\ ~mbox[s].ap_dir_en =>
                  GatedRecv(apple_a7iop_mailbox_recv_ap(World, s),
                            "apple_a7iop_mailbox_recv_ap", s)
    /\ ~mbox["ap"].iop_dir_en =>
           GatedRecv(apple_a7iop_recv_iop(World),
                     "apple_a7iop_mailbox_recv_iop", "ap")
    /\ ~mbox["iop"].ap_dir_en =>
           GatedRecv(apple_a7iop_recv_ap(World),
                     "apple_a7iop_mailbox_recv_ap", "iop")

\* after the IOP direction of the "ap" block was switched off by a control
\* write, a receive through it has just been refused while the IOP inbox is
\* empty and not underflowed
C35_Witness ==
    /\ ~mbox["ap"].iop_dir_en
    /\ mbox["ap"].ap_dir_en
    /\ last.log = <<<<"apple_a7iop_mailbox_recv_iop", "ap",
                      "direction not enabled">>>>
    /\ last.ret = NULL
    /\ mbox["iop"].inbox = <<>>
    /\ mbox["iop"].count = 0
    /\ ~mbox["iop"].underflow

---------------------------------------------------------------------------
(* Claims about reset and the interrupt mask, checked under SpecMask.      *)

\* the levels of the lines of object s derived from the queues and the
\* underflow flags of world w and the mask given
LevelsWithMask(w, s, mask) ==
    IrqLevels([w EXCEPT !.mbox[s].int_mask = mask], s)

(* C39: mailbox reset preserves the interrupt mask.  From every reachable  *)
(* state, a reset of either object leaves the interrupt masks of both      *)
(* objects exactly as they were, and the lines of the reset object are the *)
(* levels derived from the state the reset leaves with the mask it had     *)
(* before: the empty line of its own, now empty, inbox is raised exactly   *)
(* when the old mask leaves it unmasked, and its nonempty line is low.     *)
C39_ResetKeepsMask ==
    \A s \in Mailboxes :
        LET w == apple_a7iop_mailbox_reset(World, s)
            old == mbox[s].int_mask
        IN  /\ \A t \in Mailboxes : w.mbox[t].int_mask = mbox[t].int_mask
            /\ w.mbox[s].irqs = LevelsWithMask(w, s, old)
            /\ s = "iop" =>
                   /\ w.mbox[s].irqs.iop_empty = (BitAnd(old, IOP_EMPTY) = 0)
                   /\ ~w.mbox[s].irqs.iop_nonempty
            /\ s = "ap" =>
                   /\ w.mbox[s].irqs.ap_empty = (BitAnd(old, AP_EMPTY) = 0)
                   /\ ~w.mbox[s].irqs.ap_nonempty

\* the "iop" object has just been reset with both empty conditions masked:
\* the mask is still there and its empty line stays low although its inbox
\* is empty
C39_Witness ==
    /\ JustReset("iop")
    /\ mbox["iop"].int_mask = IOP_EMPTY + AP_EMPTY
    /\ mbox["iop"].inbox = <<>>
    /\ ~mbox["iop"].irqs.iop_empty
    /\ ~mbox["iop"].irqs.iop_nonempty
    /\ mbox["ap"].int_mask = IOP_NONEMPTY

---------------------------------------------------------------------------
(* Claims about overflow, checked under SpecStatus.                        *)

\* an enqueue that was accepted: the message is the last of the inbox, the
\* messages queued before are all still there, and the count went up
Appended(w, s, msg) ==
    /\ w.mbox[s].inbox = mbox[s].inbox \o <<msg>>
    /\ w.mbox[s].count = mbox[s].count + 1
    /\ w.ev = <<[kind |-> "enq", box |-> s, msg |-> msg]>>
    /\ w.log = <<>>

(* C40: the status word never reports overflow.  In every reachable state, *)
(* with any number of messages queued, the overflow bit of the status word *)
(* of either inbox, alone or as read through either register block, is 0;  *)
(* and an enqueue on an enabled direction appends the message and counts   *)
(* it, however many messages are queued and whether or not the inbox is    *)
(* underflowed.                                                            *)
C40_NeverOverflow ==
    /\ \A s \in Mailboxes :
           ~StatusOverflow(apple_a7iop_mailbox_ctrl(World, s))
    /\ \A o \in Mailboxes :
           /\ ~StatusOverflow(apple_a7iop_mailbox_get_iop_ctrl(World, o))
           /\ ~StatusOverflow(apple_a7iop_mailbox_get_ap_ctrl(World, o))
           /\ mbox[o].iop_dir_en =>
                  Appended(apple_a7iop_mailbox_send_iop(World, o,
                                                        DataMessage(2)),
                           "iop", DataMessage(2))
           /\ mbox[o].ap_dir_en =>
                  Appended(apple_a7iop_mailbox_send_ap(World, o,
                                                       DataMessage(2)),
                           "ap", DataMessage(2))

\* the AP inbox holds one message more than MAX_MESSAGE_COUNT and its status
\* word has just been read: enabled, full, count 15, no overflow
C40_Witness ==
    /\ Len(mbox["ap"].inbox) = MAX_MESSAGE_COUNT + 1
    /\ mbox["ap"].count = MAX_MESSAGE_COUNT + 1
    /\ ~mbox["ap"].underflow
    /\ last.ret = [word |-> 1 + Pow2(16) + 15 * Pow2(20)]
    /\ ~StatusOverflow(1 + Pow2(16) + 15 * Pow2(20))

---------------------------------------------------------------------------
(* Claims about the lines of both objects, checked under SpecIrq.          *)

\* every line of both objects of world w is at the level derived from the
\* queues and underflow flags of w and the object's own mask
LevelCorrect(w) == \A s \in Mailboxes : w.mbox[s].irqs = IrqLevels(w, s)

(* C33: both objects keep level-correct lines.  From every reachable state *)
(* in which the four lines of both objects are level-correct, an enqueue,  *)
(* a dequeue or a reset issued through either object leaves the four lines *)
(* of both objects level-correct, and so does a reset of the two objects   *)
(* one after the other: no line is left stale.                             *)
C33_LinesLevelCorrect ==
    LevelCorrect(World) =>
        /\ \A s \in Mailboxes :
               /\ LevelCorrect(apple_a7iop_mailbox_send_iop(World, s,
                                                            DataMessage(1)))
               /\ LevelCorrect(apple_a7iop_mailbox_send_ap(World, s,
                                                           DataMessage(1)))
               /\ LevelCorrect(apple_a7iop_mailbox_recv_iop(World, s))
               /\ LevelCorrect(apple_a7iop_mailbox_recv_ap(World, s))
               /\ LevelCorrect(apple_a7iop_mailbox_reset(World, s))
        /\ LevelCorrect(apple_a7iop_mailbox_reset(
                            apple_a7iop_mailbox_reset(World, "iop"), "ap"))

---------------------------------------------------------------------------
(* Claims about the phase of the session, checked under SpecSession.       *)

\* the phases of AppleRTBuddyEP0State
Phases == {"EP0_IDLE", "EP0_WAIT_HELLO", "EP0_WAIT_ROLLCALL", "EP0_DONE"}

(* C37: session reset.  From every reachable state, in any phase, with or  *)
(* without pending rollcall entries, a reset of the session leaves the     *)
(* phase Idle, the pending-rollcall queue empty and the processor status   *)
(* word 0; the endpoint registry is unchanged, and the protocol version is *)
(* unchanged: a Hello sent after the reset is the Hello sent before it.    *)
(* The reset sends nothing and touches no mailbox.                         *)
C37_SessionReset ==
    LET w == apple_rtbuddy_reset(World)
    IN  /\ ep0_status \in Phases
        /\ w.ep0_status = "EP0_IDLE"
        /\ w.rollcall = <<>>
        /\ w.cpu_status = 0
        /\ w.endpoints = endpoints
        /\ apple_rtbuddy_mgmt_send_hello(w).tx
               = apple_rtbuddy_mgmt_send_hello(World).tx
        /\ w.tx = <<>>
        /\ w.mbox = mbox
        /\ w.trans = <<[from |-> ep0_status, to |-> "EP0_IDLE",
                        by |-> "apple_rtbuddy_reset"]>>
        /\ SessionReset(last) =>
               ep0_status = "EP0_IDLE" /\ rollcall = <<>> /\ cpu_status = 0

\* the session has just been reset in the middle of a rollcall, with the
\* three endpoints still registered
C37_Witness ==
    /\ last.trans = <<[from |-> "EP0_WAIT_ROLLCALL", to |-> "EP0_IDLE",
                       by |-> "apple_rtbuddy_reset"]>>
    /\ ep0_status = "EP0_IDLE"
    /\ rollcall = <<>>
    /\ cpu_status = 0
    /\ DOMAIN endpoints = {EP_MANAGEMENT, EP_CRASHLOG, EP_USER_START + 1}

(* C38: the phase Done is unreachable.  In every reachable state of the    *)
(* session the phase is Idle, WaitHello or WaitRollcall, and no assignment *)
(* to the phase ever stores Done; a completed handshake, the one that sent *)
(* SetApPstateAck{state 32}, has left the phase Idle.                      *)
C38_DoneUnreachable ==
    /\ ep0_status \in Phases \ {"EP0_DONE"}
    /\ \A i \in 1..Len(last.trans) :
           /\ last.trans[i].to \in Phases \ {"EP0_DONE"}
           /\ last.trans[i].from \in Phases \ {"EP0_DONE"}
    /\ (\E i \in 1..Len(last.tx) :
            last.tx[i] = SetApPstateAck(32))
           => \E i \in 1..Len(last.trans) :
                  last.trans[i] = [from |-> "EP0_WAIT_ROLLCALL",
                                   to |-> "EP0_IDLE",
                                   by |-> "apple_rtbuddy_handle_mgmt_msg"]

\* the bottom half has just completed a handshake: the last acknowledgement
\* was answered with SetApPstateAck{state 32} and the phase is Idle
C38_Witness ==
    /\ ep0_status = "EP0_IDLE"
    /\ last.tx = <<SetApPstateAck(32)>>
    /\ last.trans = <<[from |-> "EP0_WAIT_ROLLCALL", to |-> "EP0_IDLE",
                       by |-> "apple_rtbuddy_handle_mgmt_msg"]>>
    /\ rollcall = <<>>

---------------------------------------------------------------------------
(* Claims about re-entering the rollcall, checked under SpecRollcall.      *)

\* the session handles a RecvHello now
OnRecvHello(w) ==
    apple_rtbuddy_handle_mgmt_msg(w, EP_MANAGEMENT, RecvHello.msg)

(* C34: re-entering rollcall discards stale entries.  Whenever the session *)
(* is in WaitHello, with or without entries left pending by a rollcall     *)
(* that a restart interrupted, handling RecvHello enters WaitRollcall,     *)
(* sends one message and leaves pending the others, and these are exactly  *)
(* the entries generated from the registry as it is now, in order, as if   *)
(* the pending queue had been empty; and throughout WaitRollcall the       *)
(* messages sent so far followed by the pending ones are the generated     *)
(* entries, each once.                                                     *)
C34_StaleEntriesDiscarded ==
    /\ ep0_status = "EP0_WAIT_HELLO" =>
           LET w == OnRecvHello(World)
               clean == OnRecvHello([World EXCEPT !.rollcall = <<>>])
           IN  /\ w.ep0_status = "EP0_WAIT_ROLLCALL"
               /\ Len(w.tx) = 1
               /\ RollcallEntries(w.tx \o w.rollcall)
                      = Partition(DOMAIN endpoints)
               /\ w.tx = clean.tx
               /\ w.rollcall = clean.rollcall
               /\ w.hs.gen = w.tx \o w.rollcall
    /\ ep0_status = "EP0_WAIT_ROLLCALL" =>
           /\ hs.sent \o rollcall = hs.gen
           /\ RollcallEntries(hs.gen) = Partition(DOMAIN endpoints)

\* a restart has interrupted a rollcall and left an entry pending; the
\* session waits for the hello, whose handling replaces the stale entry
C34_Witness ==
    /\ ep0_status = "EP0_WAIT_HELLO"
    /\ rollcall # <<>>
    /\ hs.gen # <<>>
    /\ Len(OnRecvHello(World).rollcall) = Len(rollcall)
    /\ Len(Partition(DOMAIN endpoints)) = Len(rollcall) + 1

---------------------------------------------------------------------------
(* The entry points as threads.  A thread runs its entry point as the      *)
(* sequence of its lock sections: it takes a mutex, runs what the code     *)
(* does while holding it, releases it.  Another thread may run between any *)
(* two steps; a thread that asks for a mutex another thread holds waits.   *)
(* QemuMutex is not recursive: a thread that asks for a mutex it holds     *)
(* itself waits forever.                                                   *)

\* AppleRTBuddy.lock and AppleA7IOP.lock; the lock of mailbox object s is
\* named s
SessionLock == "rtbuddy"
ChannelLock == "a7iop"

Lock(l) == Instr("lock", l, "", NULL)
Unlock(l) == Instr("unlock", l, "", NULL)

\* if (!s->ap_dir_en) / if (!s->iop_dir_en) of the gated functions
GateOf(w, fn, s) ==
    IF fn \in {"apple_a7iop_mailbox_send_ap", "apple_a7iop_mailbox_recv_ap"}
    THEN w.mbox[s].ap_dir_en
    ELSE w.mbox[s].iop_dir_en

\* a gated send that keeps s->lock while apple_a7iop_mailbox_send takes the
\* lock of the target
SendSteps_Nested(fn, s, target, msg) ==
    <<Lock(s),
      Instr("gate", s, fn, [from |-> 1, to |-> 4, ret |-> VOID]),
      Lock(target),
      Instr("send", target, fn, [msg |-> msg, gate |-> s]),
      Unlock(target),
      Instr("update_irq", s, fn, NULL),
      Unlock(s)>>

\* apple_a7iop_mailbox_send_ap and apple_a7iop_mailbox_send_iop: the test
\* of the direction enable under s->lock, apple_a7iop_mailbox_send under
\* the lock of the target, apple_a7iop_mailbox_update_irq(s) under s->lock
SendSteps(fn, s, target, msg) ==
    <<Lock(s),
      Instr("gate", s, fn, [from |-> 2, to |-> 7, ret |-> VOID]),
      Unlock(s),
      Lock(target),
      Instr("send", target, fn, [msg |-> msg, gate |-> s]),
      Unlock(target),
      Lock(s),
      Instr("update_irq", s, fn, NULL),
      Unlock(s)>>

\* apple_a7iop_mailbox_recv_iop and apple_a7iop_mailbox_recv_ap
RecvSteps(fn, s, target) ==
    <<Lock(s),
      Instr("gate", s, fn, [from |-> 2, to |-> 7, ret |-> NULL]),
      Unlock(s),
      Lock(target),
      Instr("recv", target, fn, NULL),
      Unlock(target),
      Lock(s),
      Instr("update_irq", s, fn, NULL),
      Unlock(s)>>

\* apple_a7iop_mailbox_set_iop_ctrl and apple_a7iop_mailbox_set_ap_ctrl
CtrlSteps(fn, s, value) ==
    <<Lock(s), Instr("set_ctrl", s, fn, [value |-> value]), Unlock(s)>>

\* apple_a7iop_set_cpu_ctrl: the assignment under the lock of the channel,
\* then apple_a7iop_cpu_start with no lock held
CpuCtrlSteps(value) ==
    <<Lock(ChannelLock),
      Instr("cpu_ctrl", ChannelLock, "apple_a7iop_set_cpu_ctrl",
            [value |-> value]),
      Unlock(ChannelLock)>>
    \o (IF BitAnd(value, CPU_CTRL_RUN) # 0
        THEN <<Instr("cpu_start", "", "apple_a7iop_cpu_start", NULL)>>
        ELSE <<>>)

\* while (!apple_a7iop_mailbox_is_empty(a7iop->iop_mailbox))
WhileSteps ==
    <<Lock("iop"),
      Instr("is_empty", "iop", "apple_a7iop_mailbox_is_empty", NULL),
      Unlock("iop")>>

\* the body of the loop of apple_rtbuddy_bh
BodySteps ==
    RecvSteps("apple_a7iop_mailbox_recv_iop", "ap", "iop")
    \o <<Instr("handler", "", "apple_rtbuddy_bh", NULL)>>

\* apple_rtbuddy_bh: QEMU_LOCK_GUARD(&s->lock) around the loop
BhSteps == <<Lock(SessionLock)>> \o WhileSteps \o <<Unlock(SessionLock)>>

\* the sends of a call of the session layer, one gated send through the
\* "iop" object for each message it handed to apple_a7iop_send_ap
RECURSIVE SendsOf(_)
SendsOf(tx) ==
    IF tx = <<>> THEN <<>>
    ELSE SendSteps("apple_a7iop_mailbox_send_ap", "iop", ap_mailbox("iop"),
                   Head(tx))
         \o SendsOf(Tail(tx))

\* the accesses to the processor status of a call of the session layer:
\* apple_rtbuddy_iop_start and apple_rtbuddy_iop_wakeup read the status and
\* write it back without the idle bit, a sleep request writes
\* CPU_STATUS_IDLE; every access takes the lock of the channel by itself
StatusSteps(cpu) ==
    IF cpu = <<>> THEN <<>>
    ELSE IF BitAnd(Head(cpu), CPU_STATUS_IDLE) = 0
    THEN <<Lock(ChannelLock),
           Instr("get_status", ChannelLock, "apple_a7iop_get_cpu_status",
                 NULL),
           Unlock(ChannelLock),
           Lock(ChannelLock),
           Instr("set_status", ChannelLock, "apple_a7iop_set_cpu_status",
                 [clear |-> TRUE, value |-> 0]),
           Unlock(ChannelLock)>>
    ELSE <<Lock(ChannelLock),
           Instr("set_status", ChannelLock, "apple_a7iop_set_cpu_status",
                 [clear |-> FALSE, value |-> Head(cpu)]),
           Unlock(ChannelLock)>>

\* what a call of the session layer assigns with no lock of its own: the
\* fields of the session; its processor status and its sends follow as
\* steps
SessionPart(w) ==
    [w EXCEPT !.mbox = mbox, !.bh = bh, !.cpu_status = cpu_status,
              !.ret = VOID, !.log = <<>>, !.ev = <<>>, !.upd = {},
              !.acc = {}]

\* a call of the session layer by a thread whose entry point goes on with
\* rest: a handler called by apple_rtbuddy_bh, apple_a7iop_cpu_start
Enter(w, rest) ==
    [w |-> SessionPart(w),
     prog |-> StatusSteps(w.cpu) \o SendsOf(w.tx) \o rest,
     msg |-> NULL, val |-> 0]

\* the steps between from and to of an entry point left out
Drop(prog, from, to) ==
    SubSeq(prog, 1, from - 1) \o SubSeq(prog, to + 1, Len(prog))

\* the next step of thread t: the state it leaves, the rest of the entry
\* point, the locals of the thread
Run(t) ==
    LET th == threads[t]
        i == Head(th.prog)
        rest == Tail(th.prog)
        same == [w |-> World, prog |-> rest, msg |-> th.msg, val |-> th.val]
    IN  CASE i.op = "gate" ->
                 IF GateOf(World, i.fn, i.s)
                 THEN [same EXCEPT !.w = Access(World, i.s, i.s, {"dir_en"})]
                 ELSE [same EXCEPT
                          !.w = NotEnabled(World, i.fn, i.s, i.arg.ret),
                          !.prog = Drop(rest, i.arg.from, i.arg.to)]
          [] i.op = "send" ->
                 [same EXCEPT
                     !.w = apple_a7iop_mailbox_send(World, i.s, i.arg.msg)]
          [] i.op = "recv" ->
                 LET w == apple_a7iop_mailbox_recv(World, i.s)
                 IN  [same EXCEPT !.w = w, !.msg = w.ret]
          [] i.op = "update_irq" ->
                 [same EXCEPT !.w = apple_a7iop_mailbox_update_irq(World, i.s)]
          [] i.op = "set_ctrl" ->
                 [same EXCEPT !.w =
                     IF i.fn = "apple_a7iop_mailbox_set_iop_ctrl"
                     THEN apple_a7iop_mailbox_set_iop_ctrl(World, i.s,
                                                           i.arg.value)
                     ELSE apple_a7iop_mailbox_set_ap_ctrl(World, i.s,
                                                          i.arg.value)]
          [] i.op = "cpu_ctrl" ->
                 [same EXCEPT !.w = [World EXCEPT !.cpu_ctrl = i.arg.value]]
          [] i.op = "get_status" ->
                 [same EXCEPT !.val = apple_a7iop_get_cpu_status(World)]
          [] i.op = "set_status" ->
                 [same EXCEPT
                     !.w = apple_a7iop_set_cpu_status(
                               World,
                               IF i.arg.clear
                               THEN BitAndNot(th.val, CPU_STATUS_IDLE)
                               ELSE i.arg.value),
                     !.val = 0]
          [] i.op = "is_empty" ->
                 IF apple_a7iop_mailbox_is_empty(World, i.s) THEN same
                 ELSE [same EXCEPT
                          !.prog = <<Head(rest)>> \o BodySteps \o WhileSteps
                                   \o Tail(rest)]
          [] i.op = "handler" ->
                 IF th.msg = NULL
                 THEN [same EXCEPT !.w = [World EXCEPT !.crashed = TRUE]]
                 ELSE Enter(Dispatch(World, th.msg), rest)
          [] i.op = "cpu_start" ->
                 Enter(apple_a7iop_cpu_start(World, FALSE), rest)
          [] OTHER -> same

Holds(t, l) == \E k \in DOMAIN threads[t].held : threads[t].held[k] = l

\* qemu_mutex_lock returns when no thread holds the mutex
Free(l) == \A u \in Threads : ~Holds(u, l)

\* thread t waits for a mutex
Waits(t) ==
    /\ threads[t].prog # <<>>
    /\ Head(threads[t].prog).op = "lock"
    /\ ~Free(Head(threads[t].prog).s)

\* the mutexes t holds after step i
Held(held, i) ==
    IF i.op = "lock" THEN Append(held, i.s)
    ELSE IF i.op = "unlock" THEN SelectSeq(held, LAMBDA l : l # i.s)
    ELSE held

\* the device state a step of a thread leaves; what the step logged and
\* recorded is not kept
Store(w) ==
    /\ mbox' = w.mbox
    /\ bh' = w.bh
    /\ cpu_status' = w.cpu_status
    /\ cpu_ctrl' = w.cpu_ctrl
    /\ ep0_status' = w.ep0_status
    /\ rollcall' = w.rollcall
    /\ endpoints' = w.endpoints
    /\ crashed' = w.crashed
    /\ hs' = w.hs
    /\ UNCHANGED <<last, enq, deq>>

\* thread t runs the next step of its entry point.  A release that follows
\* the step is part of it: qemu_mutex_unlock never waits, and no thread can
\* enter the section between its last statement and the release
ThreadStep(t) ==
    /\ ~crashed
    /\ threads[t].prog # <<>>
    /\ ~Waits(t)
    /\ \E r \in {Run(t)} :
       LET i == Head(threads[t].prog)
           release == r.prog # <<>> /\ Head(r.prog).op = "unlock"
           prog == IF release THEN Tail(r.prog) ELSE r.prog
           held == IF release
                   THEN Held(Held(threads[t].held, i), Head(r.prog))
                   ELSE Held(threads[t].held, i)
       IN  /\ Store(r.w)
           /\ threads' =
                  [threads EXCEPT
                      ![t] = [prog |-> prog, held |-> held,
                              msg |-> IF prog = <<>> THEN NULL ELSE r.msg,
                              val |-> r.val, n |-> threads[t].n]]

\* the register accesses the virtual CPUs have begun
Begun == threads["main"].n

\* thread t enters an entry point in state w.  The virtual CPUs are alike:
\* of two that are outside every entry point, "cpu0" takes the access
Begin(t, prog, w) ==
    /\ ~crashed
    /\ threads[t].prog = <<>>
    /\ t = "cpu1" => threads["cpu0"].prog # <<>>
    /\ Store(w)
    /\ threads' = [u \in Threads |->
                      [threads[u] EXCEPT
                          !.prog = IF u = t THEN prog ELSE @,
                          !.n = IF t = "main" THEN @ ELSE @ + 1]]

\* a virtual CPU writes the last word of the IOP send register of the "ap"
\* block, reads REG_AP_RECV0 of it, writes a direction control register,
\* writes REG_CPU_CTRL
GuestSend(t, msg) ==
    Begin(t, SendSteps("apple_a7iop_mailbox_send_iop", "ap",
                       iop_mailbox("ap"), msg), World)

GuestRecv(t) ==
    Begin(t, RecvSteps("apple_a7iop_mailbox_recv_ap", "ap", ap_mailbox("ap")),
          World)

GuestCtrl(t, fn, s, value) == Begin(t, CtrlSteps(fn, s, value), World)

GuestCpuCtrl(t, value) == Begin(t, CpuCtrlSteps(value), World)

\* the main loop calls the scheduled bottom half, which is then no longer
\* pending
MainLoop ==
    /\ bh = "scheduled"
    /\ Begin("main", BhSteps, [World EXCEPT !.bh = "idle"])

(* SpecThreads: two virtual CPUs of the AP and the main loop on a session  *)
(* with the endpoints of SpecSession.  The mailbox objects are reset       *)
(* before the virtual CPUs run.                                            *)

MaxAccess == 2

Cpus == {"cpu0", "cpu1"}

ThreadMessages == {Ping(7, 9), SetIopPstate(PSTATE_ON)}

\* the direction enables that gate the entry points of SpecThreads
CtrlWrites ==
    {<<"apple_a7iop_mailbox_set_iop_ctrl", "ap">>,
     <<"apple_a7iop_mailbox_set_ap_ctrl", "ap">>,
     <<"apple_a7iop_mailbox_set_ap_ctrl", "iop">>}

AllIdle == \A t \in Threads : threads[t].prog = <<>>

NextThreads ==
    \/ \E s \in Mailboxes :
           AllIdle /\ Begun = 0 /\ MailboxReset(s) /\ Unobserved
    \/ \E t \in Cpus, msg \in ThreadMessages :
           Begun < MaxAccess /\ GuestSend(t, msg)
    \/ \E t \in Cpus : Begun < MaxAccess /\ GuestRecv(t)
    \/ \E t \in Cpus, c \in CtrlWrites, v \in CtrlValues :
           Begun < MaxAccess /\ GuestCtrl(t, c[1], c[2], v)
    \/ \E t \in Cpus : Begun < MaxAccess /\ GuestCpuCtrl(t, CPU_CTRL_RUN)
    \/ MainLoop
    \/ \E t \in Threads : ThreadStep(t)

SpecThreads == InitSession /\ [][NextThreads]_vars

---------------------------------------------------------------------------
(* Claims about the interleaving of the entry points, checked under        *)
(* SpecThreads.                                                            *)

\* the order in which thread t took the mutexes it holds: the lock of the
\* session before every other, and one mailbox lock at most
Ordered(t) ==
    LET held == threads[t].held
    IN  /\ \A k \in DOMAIN held : held[k] = SessionLock => k = 1
        /\ \A j, k \in DOMAIN held :
               held[j] \in Mailboxes /\ held[k] \in Mailboxes => j = k

\* every thread of D waits for a mutex that a thread of D holds
Deadlocked(D) ==
    /\ D # {}
    /\ \A t \in D :
           /\ Waits(t)
           /\ \E u \in D : Holds(u, Head(threads[t].prog).s)

(* C36: no deadlock.  In every interleaving of the dispatch task, the      *)
(* guest's register accesses and the start and wake requests, every thread *)
(* takes the locks in one order: the lock of the session before the lock   *)
(* of the channel or a mailbox lock, and never a mailbox lock while it     *)
(* holds another mailbox lock; and no set of threads is ever such that     *)
(* each of them waits for a lock held by one of them.                      *)
C36_NoDeadlock ==
    /\ \A t \in Threads : Ordered(t)
    /\ \A D \in SUBSET Threads : ~Deadlocked(D)

\* the dispatch task holds the lock of the session and, taken after it, a
\* mailbox lock that a virtual CPU waits for
C36_Witness ==
    \E t \in Cpus, s \in Mailboxes :
        /\ threads["main"].held = <<SessionLock, s>>
        /\ Waits(t)
        /\ Head(threads[t].prog).s = s

\* thread t runs apple_a7iop_mailbox_send in this step
Appends(t) ==
    /\ threads[t].prog # <<>>
    /\ Head(threads[t].prog).op = "send"
    /\ threads'[t] # threads[t]

(* C32: send gating is atomic with the enqueue.  Whatever control-register *)
(* write runs concurrently with apple_a7iop_mailbox_send_ap or             *)
(* apple_a7iop_mailbox_send_iop, the step that appends the message to the  *)
(* queue is taken in a state where the direction enable the send tested is *)
(* true.                                                                   *)
C32_GateAtomicWithEnqueue ==
    [][\A t \in Threads :
           Appends(t) =>
               GateOf(World, Head(threads[t].prog).fn,
                      Head(threads[t].prog).arg.gate)]_vars

---------------------------------------------------------------------------
(* SpecHandshake: a session with the management endpoint of               *)
(* apple_rtbuddy_init and any endpoints of SpecRollcall, and an AP that    *)
(* follows the protocol.  The mailbox objects are reset before the    *)
(* AP starts the coprocessor; the AP starts it once and wakes it when the  *)
(* session is idle; its driver takes every message of the AP inbox and     *)
(* answers a Hello with RecvHello and a rollcall message with one          *)
(* acknowledgement.  The main loop runs a scheduled bottom half, and the   *)
(* driver runs while the AP inbox holds a message.                         *)

MaxRounds == 2

InitHandshake ==
    \E ids \in SUBSET RollcallIds : InitRTBuddy(ids \cup {EP_MANAGEMENT})

\* what the driver of the AP answers to msg
Answer(msg) ==
    IF msg.msg.type = MSG_SEND_HELLO THEN RecvHello
    ELSE IF msg.msg.type = MSG_TYPE_ROLLCALL THEN RollcallAckMsg
    ELSE NULL

\* the driver of the AP reads REG_AP_RECV0 of the "ap" block and writes its
\* answer to the IOP send register of the block
PeerStep(w) ==
    LET w1 == apple_a7iop_mailbox_recv_ap(w, "ap")
    IN  IF w1.ret = NULL \/ Answer(w1.ret) = NULL THEN w1
        ELSE apple_a7iop_mailbox_send_iop(w1, "ap", Answer(w1.ret))

Peer ==
    /\ ~crashed
    /\ mbox["ap"].inbox # <<>>
    /\ \E w \in {PeerStep(World)} : Commit(w)

\* the AP starts the coprocessor
PeerStarts ==
    /\ cpu_ctrl = 0
    /\ RegWriteCpuCtrl(CPU_CTRL_RUN)

\* the AP wakes the coprocessor of an idle session
PeerWakes ==
    /\ cpu_ctrl # 0
    /\ ep0_status = "EP0_IDLE"
    /\ InFlight = 0
    /\ Hellos(enq["ap"]) < MaxRounds
    /\ RegWriteIopSend("ap", SetIopPstate(PSTATE_ON))

NextHandshake ==
    \/ \E s \in Mailboxes : cpu_ctrl = 0 /\ MailboxReset(s) /\ Observe
    \/ PeerStarts /\ Observe
    \/ PeerWakes /\ Observe
    \/ BottomHalf /\ Observe
    \/ Peer /\ Observe

\* the step of Peer as the messages taken from the AP inbox show it
PeerTakes ==
    /\ ~crashed
    /\ mbox["ap"].ap_dir_en
    /\ mbox["ap"].inbox # <<>>
    /\ deq' = [deq EXCEPT !["ap"] =
                   Append(@, StampFlags(First(mbox["ap"].inbox),
                                        mbox["ap"].count))]

SpecHandshake ==
    /\ InitHandshake
    /\ [][NextHandshake]_vars
    /\ WF_bh(BottomHalfRuns)
    /\ WF_deq(PeerTakes)

---------------------------------------------------------------------------
(* Claims checked under SpecHandshake.                                     *)

\* the messages of msgs from the last Hello on
RECURSIVE LastRound(_)
LastRound(msgs) ==
    IF msgs = <<>> THEN <<>>
    ELSE IF Hellos(Tail(msgs)) > 0 THEN LastRound(Tail(msgs))
    ELSE IF Head(msgs) = Hello THEN msgs
    ELSE LastRound(Tail(msgs))

\* every direction the handshake uses is enabled
Open ==
    /\ mbox["iop"].ap_dir_en
    /\ mbox["ap"].ap_dir_en
    /\ mbox["ap"].iop_dir_en

\* a start or a wake-up has left the session waiting for the Hello's answer
Started == ep0_status = "EP0_WAIT_HELLO" /\ Open

\* the session is idle, and what it has queued for the AP since its last
\* Hello is that Hello, the generated rollcall entries in order and
\* SetApPstateAck with state 32
Completed ==
    /\ ep0_status = "EP0_IDLE"
    /\ LastRound(enq["ap"]) = <<Hello>> \o hs.gen \o <<SetApPstateAck32>>

(* C31: handshake completion.  When the directions stay enabled, the       *)
(* bottom half runs whenever it is scheduled and the peer answers the      *)
(* Hello with RecvHello and every rollcall message with one                *)
(* acknowledgement, a session that a start or a wake-up has put in         *)
(* WaitHello eventually is idle again, having sent the Hello, every        *)
(* generated rollcall entry in order and at last SetApPstateAck with state *)
(* 32.                                                                     *)
C31_HandshakeCompletes == Started ~> Completed

\* a handshake of three rollcall entries has completed after a wake-up
C31_Witness ==
    /\ Completed
    /\ Len(hs.gen) = 3
    /\ Hellos(enq["ap"]) = 2

====
